---- MODULE Spec2Model ----
(***************************************************************************)
(* A model of Wabot: the per-channel conversation history                  *)
(* (conversation.service.ts), the per-user profile store                   *)
(* (userProfile.service.ts), the model router and the completion client    *)
(* (gemini.service.ts), the message handler (messageCreate.handler.ts)     *)
(* and the serverless entry point (index.ts).                              *)
(***************************************************************************)
EXTENDS Integers, Sequences, FiniteSets, TLC

(***************************************************************************)
(* Program constants and model bounds                                      *)
(***************************************************************************)

\* config.MAX_HISTORY_MESSAGES
MAX_HISTORY_MESSAGES == 10

\* Bound: addMessageToHistory calls modelled in one run, over all channels.
MaxAppends == 23

\* message.channel.id values
Channels == {"c1", "c2"}

VARIABLES
    conversationHistories,  \* Map<string, Content[]>: its keys are its DOMAIN
    appended,               \* ghost: per channel, the turns appended since the key was created or last cleared
    appendCount,            \* ghost: per channel, the addMessageToHistory calls made so far
    historyCall             \* the last call of the conversation service and what it returned

historyVars == <<conversationHistories, appended, appendCount, historyCall>>

VARIABLES
    dbReady,        \* whether db holds a Low instance with its data loaded
    userProfiles,   \* db.data.userProfiles, the in-memory document
    storage,        \* the userProfiles of the JSON file
    writer,         \* the file writer's queue: the write in progress, then the one waiting
    profileCall,    \* the last call of the profile service that started, with its outcome
    profileReturn,  \* the calls of the profile service that returned in the last step
    profileCalls    \* ghost: the profile calls started so far

profileVars == <<dbReady, userProfiles, storage, writer, profileCall, profileReturn, profileCalls>>

VARIABLES
    routerQuery,    \* the text of the message the router is given
    routed          \* what each getModelForQuery returned for it

routerVars == <<routerQuery, routed>>

VARIABLES
    service,         \* the declaration of generateResponse the build links
    secondaryApiKey, \* whether GEMINI_SECONDARY_API_KEY is set
    exchange         \* the free-text exchange under way: where it stands and what it has done

exchangeVars == <<service, secondaryApiKey, exchange>>

VARIABLES
    extraction       \* the call of extractMemoryFromConversation looked at: its provider outcome and its result
extractVars == <<extraction>>

VARIABLES
    handlerBuild,       \* the declaration of handleMessageCreate the build links
    isMaintenance,      \* botState.isMaintenance
    processedMessages,  \* the Set of message keys of the handler at line 18
    timers,             \* the keys a setTimeout is waiting to delete
    messages,           \* the messages the gateway has delivered, by message.id
    redelivered,        \* the ids the gateway has delivered a second time
    pending,            \* the runs of processGeminiQuery awaiting generateResponse
    event               \* the last step of a handler: the message, what was replied, how the promise settled

handlerVars ==
    <<handlerBuild, isMaintenance, processedMessages, timers, messages, redelivered, pending, event>>

VARIABLES
    environment,        \* whether DISCORD_BOT_TOKEN, GEMINI_API_KEY and BOT_OWNER_ID are all set
    isBotInitialized,   \* the flag of index.ts
    connected,          \* whether a client.login has resolved
    listeners,          \* how many times handleMessageCreate is registered on messageCreate
    invocations,        \* the invocations of the serverless handler: where each stands
    handlerRuns         \* the runs of handleMessageCreate the last Discord message started

startupVars == <<environment, isBotInitialized, connected, listeners, invocations, handlerRuns>>

vars == <<historyVars, profileVars, routerVars, exchangeVars, extractVars, handlerVars, startupVars>>

(***************************************************************************)
(* Map<K, V> and Array helpers                                             *)
(***************************************************************************)

\* Map.prototype.has
MapHas(m, k) == k \in DOMAIN m

\* Map.prototype.set
MapSet(m, k, v) == [x \in DOMAIN m \cup {k} |-> IF x = k THEN v ELSE m[x]]

\* Map.prototype.delete
MapDelete(m, k) == [x \in DOMAIN m \ {k} |-> m[x]]

\* Array.prototype.splice(0, deleteCount): the array left after removing the
\* first deleteCount entries (deleteCount clamped to 0..length).
SpliceFront(list, deleteCount) ==
    LET n == IF deleteCount < 0 THEN 0
             ELSE IF deleteCount > Len(list) THEN Len(list) ELSE deleteCount
    IN SubSeq(list, n + 1, Len(list))

(***************************************************************************)
(* conversation.service.ts                                                 *)
(***************************************************************************)

\* { role, parts: [{ text }] }
Content(role, text) == [role |-> role, text |-> text]

\* the length a list is cut back to: config.MAX_HISTORY_MESSAGES * 2
HistoryLimit == MAX_HISTORY_MESSAGES * 2

\* plausible bug: the pushed list is never cut back
addMessageToHistoryNoTrim(histories, channelId, role, text) ==
    LET h1 == IF ~MapHas(histories, channelId) THEN MapSet(histories, channelId, <<>>) ELSE histories
    IN MapSet(h1, channelId, Append(h1[channelId], Content(role, text)))

\* plausible bug: a full list drops a (user, model) pair, two entries, at a time
addMessageToHistoryPairs(histories, channelId, role, text) ==
    LET h1 == IF ~MapHas(histories, channelId) THEN MapSet(histories, channelId, <<>>) ELSE histories
        pushed == Append(h1[channelId], Content(role, text))
    IN MapSet(h1, channelId,
              IF Len(pushed) > HistoryLimit
              THEN SpliceFront(pushed, 2 * ((Len(pushed) - HistoryLimit + 1) \div 2))
              ELSE pushed)

\* plausible bug: the list is cut back to one entry more than the limit
addMessageToHistoryOddLimit(histories, channelId, role, text) ==
    LET h1 == IF ~MapHas(histories, channelId) THEN MapSet(histories, channelId, <<>>) ELSE histories
        pushed == Append(h1[channelId], Content(role, text))
    IN MapSet(h1, channelId,
              IF Len(pushed) > HistoryLimit + 1
              THEN SpliceFront(pushed, Len(pushed) - (HistoryLimit + 1))
              ELSE pushed)

\* addMessageToHistory(channelId, role, text): the map after the call
addMessageToHistory(histories, channelId, role, text) ==
    LET h1 == IF ~MapHas(histories, channelId) THEN MapSet(histories, channelId, <<>>) ELSE histories
        pushed == Append(h1[channelId], Content(role, text))
    IN MapSet(h1, channelId,
              IF Len(pushed) > HistoryLimit
              THEN SpliceFront(pushed, Len(pushed) - HistoryLimit)
              ELSE pushed)

\* plausible bug: a read of an unseen key stores the empty list it returns
getHistoryCreates(histories, channelId) ==
    [returned  |-> IF MapHas(histories, channelId) THEN histories[channelId] ELSE <<>>,
     histories |-> IF MapHas(histories, channelId) THEN histories ELSE MapSet(histories, channelId, <<>>)]

\* getHistory(channelId): what it returns, and the map after the call
getHistory(histories, channelId) ==
    [returned  |-> IF MapHas(histories, channelId) THEN histories[channelId] ELSE <<>>,
     histories |-> histories]

\* plausible bug: the list is emptied but the key stays
clearHistoryEmpties(histories, channelId) ==
    IF MapHas(histories, channelId) THEN MapSet(histories, channelId, <<>>) ELSE histories

\* plausible bug: the whole map is cleared
clearHistoryAll(histories, channelId) == <<>>

\* clearHistory(channelId): the map after the call
clearHistory(histories, channelId) == MapDelete(histories, channelId)

\* The role of the next turn appended under a channel: the handler appends the
\* user's query and then the model's reply, back to back.
NextRole(channelId) == IF Len(appended[channelId]) % 2 = 0 THEN "user" ELSE "model"

\* The text of the next turn appended under a channel: one text per call.
NextText(channelId) == appendCount[channelId] + 1

TotalAppends == appendCount["c1"] + appendCount["c2"]

HistoryInit ==
    /\ conversationHistories = <<>>
    /\ appended = [c \in Channels |-> <<>>]
    /\ appendCount = [c \in Channels |-> 0]
    /\ historyCall = [op |-> "none", channelId |-> "none", returned |-> <<>>, evicted |-> 0]

AddMessageToHistory(c) ==
    /\ TotalAppends < MaxAppends
    /\ conversationHistories' =
           addMessageToHistory(conversationHistories, c, NextRole(c), NextText(c))
    /\ appended' = [appended EXCEPT ![c] = Append(@, Content(NextRole(c), NextText(c)))]
    /\ appendCount' = [appendCount EXCEPT ![c] = @ + 1]
    /\ historyCall' = [op |-> "add", channelId |-> c, returned |-> <<>>,
                       evicted |-> Len(getHistory(conversationHistories, c).returned) + 1
                                   - Len(conversationHistories'[c])]
    /\ UNCHANGED <<profileVars, routerVars, exchangeVars, extractVars, handlerVars, startupVars>>

GetHistory(c) ==
    /\ conversationHistories' = getHistory(conversationHistories, c).histories
    /\ historyCall' = [op |-> "get", channelId |-> c,
                       returned |-> getHistory(conversationHistories, c).returned,
                       evicted |-> 0]
    /\ UNCHANGED <<appended, appendCount, profileVars, routerVars, exchangeVars, extractVars,
                   handlerVars, startupVars>>

ClearHistory(c) ==
    /\ conversationHistories' = clearHistory(conversationHistories, c)
    /\ appended' = [appended EXCEPT ![c] = <<>>]
    /\ historyCall' = [op |-> "clear", channelId |-> c, returned |-> <<>>, evicted |-> 0]
    /\ UNCHANGED <<appendCount, profileVars, routerVars, exchangeVars, extractVars,
                   handlerVars, startupVars>>

(***************************************************************************)
(* userProfile.service.ts                                                  *)
(***************************************************************************)

\* message.author.id values
Users == {"u1", "u2"}

\* memory keys: an ordinary key, and one every object inherits from Object.prototype
MemoryKeys == {"city", "constructor"}

\* the keys an object literal ({}) or a parsed JSON object answers without owning them
ObjectPrototypeKeys == {"constructor"}

\* the values taught by the user (addCustomMemory): non-empty strings
ManualValues == {"Rome"}

\* the values extracted by the model (addAutomaticMemory): non-empty strings
AutomaticValues == {"Turin"}

\* the partial profiles the callers pass to setProfileData
ProfileData == {[tone |-> "formal"], [memoryEnabled |-> FALSE]}

\* the documents the JSON file may hold when the process starts: none, the one
\* left by setProfileData(u1, {tone}), or the one left by
\* addAutomaticMemory(u1, city, Turin) and then addCustomMemory(u1, city, Rome)
StoredDocuments ==
    {<<>>,
     [u1 |-> [tone |-> "formal"]],
     [u1 |-> [memoryEnabled |-> TRUE, customMemory |-> [city |-> "Rome"],
              automaticMemory |-> [city |-> "Turin"]]]}

\* Bound: profile calls started in one run.
MaxProfileCalls == 3

\* Bound: mutating calls that may be awaiting db.write() at the same time.
MaxInFlight == 2

\* obj[key] read as a condition: an own property when there is one (a string,
\* truthy unless empty), else what the prototype chain answers
Truthy(obj, key) ==
    IF key \in DOMAIN obj THEN obj[key] # "" ELSE key \in ObjectPrototypeKeys

\* Object.assign(target, source)
ObjectAssign(target, source) ==
    [f \in DOMAIN target \cup DOMAIN source |->
        IF f \in DOMAIN source THEN source[f] ELSE target[f]]

\* the literal getProfile returns when there is no database
DefaultProfile == [memoryEnabled |-> TRUE, customMemory |-> <<>>, automaticMemory |-> <<>>]

\* getProfile's three default assignments on a profile object
WithDefaults(profile) ==
    [f \in DOMAIN profile \cup {"memoryEnabled", "customMemory", "automaticMemory"} |->
        IF f \in DOMAIN profile THEN profile[f]
        ELSE IF f = "memoryEnabled" THEN TRUE ELSE <<>>]

\* whether db.data.userProfiles[userId] is a stored record
Stored(ready, profiles, userId) == ready /\ userId \in DOMAIN profiles

\* plausible bug: the profile made up for an unseen user is stored
getProfileStores(ready, profiles, userId) ==
    IF ~ready
    THEN [profile |-> DefaultProfile, userProfiles |-> profiles]
    ELSE LET profile == WithDefaults(IF userId \in DOMAIN profiles THEN profiles[userId] ELSE <<>>)
         IN [profile |-> profile, userProfiles |-> MapSet(profiles, userId, profile)]

\* getProfile(userId): the profile object it returns and db.data.userProfiles
\* after the call (the defaults are assigned on the stored record itself when
\* there is one, on a new object otherwise)
getProfile(ready, profiles, userId) ==
    IF ~ready
    THEN [profile |-> DefaultProfile, userProfiles |-> profiles]
    ELSE LET profile == WithDefaults(IF userId \in DOMAIN profiles THEN profiles[userId] ELSE <<>>)
         IN [profile |-> profile,
             userProfiles |-> IF userId \in DOMAIN profiles
                              THEN MapSet(profiles, userId, profile) ELSE profiles]

\* plausible bug: the assignment is made but db.write() is not called
setProfileDataNoWrite(ready, profiles, userId, data) ==
    IF ~ready
    THEN [userProfiles |-> profiles, wrote |-> FALSE, result |-> "void", threw |-> FALSE]
    ELSE [userProfiles |->
              MapSet(profiles, userId,
                     ObjectAssign(IF userId \in DOMAIN profiles THEN profiles[userId] ELSE <<>>,
                                  data)),
          wrote |-> FALSE, result |-> "void", threw |-> FALSE]

\* setProfileData(userId, data): db.data.userProfiles after the call, and
\* whether db.write() was called
setProfileData(ready, profiles, userId, data) ==
    IF ~ready
    THEN [userProfiles |-> profiles, wrote |-> FALSE, result |-> "void", threw |-> FALSE]
    ELSE [userProfiles |->
              MapSet(profiles, userId,
                     ObjectAssign(IF userId \in DOMAIN profiles THEN profiles[userId] ELSE <<>>,
                                  data)),
          wrote |-> TRUE, result |-> "void", threw |-> FALSE]

\* profile.<field>[key] = value, or delete profile.<field>[key], on the object
\* getProfile returned: it is the stored record when there is one
InPlace(ready, profiles, userId, g, field, memory) ==
    IF Stored(ready, profiles, userId)
    THEN MapSet(g.userProfiles, userId, [g.profile EXCEPT ![field] = memory])
    ELSE g.userProfiles

\* addCustomMemory(userId, key, value)
addCustomMemory(ready, profiles, userId, key, value) ==
    LET g == getProfile(ready, profiles, userId)
        memory == MapSet(g.profile.customMemory, key, value)
    IN setProfileData(ready, InPlace(ready, profiles, userId, g, "customMemory", memory),
                      userId, [customMemory |-> memory])

\* plausible bug: the manual memory is not looked at
addAutomaticMemoryUnchecked(ready, profiles, userId, key, value) ==
    LET g == getProfile(ready, profiles, userId)
        memory == MapSet(g.profile.automaticMemory, key, value)
    IN setProfileData(ready, InPlace(ready, profiles, userId, g, "automaticMemory", memory),
                      userId, [automaticMemory |-> memory])

\* addAutomaticMemory(userId, key, value)
addAutomaticMemory(ready, profiles, userId, key, value) ==
    LET g == getProfile(ready, profiles, userId)
        memory == MapSet(g.profile.automaticMemory, key, value)
    IN IF Truthy(g.profile.customMemory, key)
       THEN [userProfiles |-> g.userProfiles, wrote |-> FALSE, result |-> "ignored", threw |-> FALSE]
       ELSE setProfileData(ready, InPlace(ready, profiles, userId, g, "automaticMemory", memory),
                           userId, [automaticMemory |-> memory])

\* removeMemory(userId, key): result is memoryFound; with no database the
\* call of db.write() throws a TypeError
removeMemory(ready, profiles, userId, key) ==
    LET g == getProfile(ready, profiles, userId)
        inCustom == Truthy(g.profile.customMemory, key)
        inAutomatic == ~inCustom /\ Truthy(g.profile.automaticMemory, key)
        memoryFound == inCustom \/ inAutomatic
        after == IF inCustom
                 THEN InPlace(ready, profiles, userId, g, "customMemory",
                              MapDelete(g.profile.customMemory, key))
                 ELSE IF inAutomatic
                 THEN InPlace(ready, profiles, userId, g, "automaticMemory",
                              MapDelete(g.profile.automaticMemory, key))
                 ELSE g.userProfiles
    IN [userProfiles |-> after,
        wrote |-> memoryFound /\ ready,
        result |-> memoryFound,
        threw |-> memoryFound /\ ~ready]

\* clearProfileData(userId)
clearProfileData(ready, profiles, userId) ==
    IF ~Stored(ready, profiles, userId)
    THEN [userProfiles |-> profiles, wrote |-> FALSE, result |-> "void", threw |-> FALSE]
    ELSE [userProfiles |-> MapDelete(profiles, userId), wrote |-> TRUE,
          result |-> "void", threw |-> FALSE]

\* whether one of the user's stored memory maps has the key as its own property
Owned(ready, profiles, userId, key) ==
    /\ Stored(ready, profiles, userId)
    /\ \E field \in {"customMemory", "automaticMemory"} :
           field \in DOMAIN profiles[userId] /\ key \in DOMAIN profiles[userId][field]

\* the calls of the service with their arguments
ProfileCalls ==
    [op : {"getProfile", "clearProfileData"}, userId : Users, key : {"-"}, value : {"-"}, data : {<<>>}]
    \cup [op : {"removeMemory"}, userId : Users, key : MemoryKeys, value : {"-"}, data : {<<>>}]
    \cup [op : {"addCustomMemory"}, userId : Users, key : MemoryKeys,
          value : ManualValues, data : {<<>>}]
    \cup [op : {"addAutomaticMemory"}, userId : Users, key : MemoryKeys,
          value : AutomaticValues, data : {<<>>}]
    \cup [op : {"setProfileData"}, userId : Users, key : {"-"}, value : {"-"}, data : ProfileData]

\* what a call does to db.data.userProfiles, and its outcome
Outcome(ready, profiles, call) ==
    CASE call.op = "getProfile" ->
            LET g == getProfile(ready, profiles, call.userId)
            IN [userProfiles |-> g.userProfiles, wrote |-> FALSE, result |-> g.profile, threw |-> FALSE]
      [] call.op = "setProfileData" -> setProfileData(ready, profiles, call.userId, call.data)
      [] call.op = "addCustomMemory" -> addCustomMemory(ready, profiles, call.userId, call.key, call.value)
      [] call.op = "addAutomaticMemory" -> addAutomaticMemory(ready, profiles, call.userId, call.key, call.value)
      [] call.op = "removeMemory" -> removeMemory(ready, profiles, call.userId, call.key)
      [] call.op = "clearProfileData" -> clearProfileData(ready, profiles, call.userId)

\* db.write(): the writer's queue after the call. writer[1] is the write in
\* progress and writer[2] the one waiting; a write that arrives while one is
\* waiting replaces the waiting data and shares its completion.
DbWrite(queue, data, call) ==
    IF Len(queue) < 2
    THEN Append(queue, [data |-> data, waiters |-> <<call>>, dirty |-> FALSE])
    ELSE <<queue[1], [data |-> data, waiters |-> Append(queue[2].waiters, call), dirty |-> FALSE]>>

\* the queued snapshots that the in-memory document has moved away from
MarkDirty(queue, changed) ==
    [i \in 1..Len(queue) |-> [queue[i] EXCEPT !.dirty = @ \/ changed]]

Waiting(queue) ==
    IF Len(queue) = 0 THEN 0
    ELSE IF Len(queue) = 1 THEN Len(queue[1].waiters)
    ELSE Len(queue[1].waiters) + Len(queue[2].waiters)

NoCall == [op |-> "none"]

ProfileInit ==
    /\ dbReady = FALSE
    /\ userProfiles = <<>>
    /\ storage \in StoredDocuments
    /\ writer = <<>>
    /\ profileCall = NoCall
    /\ profileReturn = <<>>
    /\ profileCalls = 0

\* initializeUserProfileDB(): db.read() loads the file into db.data
InitializeUserProfileDB ==
    /\ ~dbReady
    /\ dbReady' = TRUE
    /\ userProfiles' = storage
    /\ profileCall' = NoCall
    /\ profileReturn' = <<>>
    /\ UNCHANGED <<storage, writer, profileCalls, historyVars, routerVars, exchangeVars, extractVars,
                   handlerVars, startupVars>>

\* A handler calls the service: the call runs up to its await of db.write(),
\* or to its end when it does not write.
ProfileCall(call) ==
    LET o == Outcome(dbReady, userProfiles, call)
        done == [op |-> call.op, call |-> call, result |-> o.result, threw |-> o.threw, wrote |-> o.wrote,
                 ready |-> dbReady, stored |-> Stored(dbReady, userProfiles, call.userId),
                 owned |-> Owned(dbReady, userProfiles, call.userId, call.key),
                 dirty |-> FALSE]
    IN /\ profileCalls < MaxProfileCalls
       /\ Waiting(writer) < MaxInFlight
       /\ profileCalls' = profileCalls + 1
       /\ userProfiles' = o.userProfiles
       /\ writer' = IF o.wrote
                    THEN DbWrite(MarkDirty(writer, o.userProfiles # userProfiles), o.userProfiles, done)
                    ELSE MarkDirty(writer, o.userProfiles # userProfiles)
       /\ profileCall' = done
       /\ profileReturn' = IF o.wrote THEN <<>> ELSE <<done>>
       /\ UNCHANGED <<dbReady, storage, historyVars, routerVars, exchangeVars, extractVars,
                   handlerVars, startupVars>>

\* The write in progress completes: the file holds its data and the calls that
\* awaited it return.
WriteComplete ==
    /\ Len(writer) > 0
    /\ storage' = writer[1].data
    /\ writer' = Tail(writer)
    /\ profileReturn' = [i \in 1..Len(writer[1].waiters) |->
                            [writer[1].waiters[i] EXCEPT !.dirty = writer[1].dirty]]
    /\ profileCall' = NoCall
    /\ UNCHANGED <<dbReady, userProfiles, profileCalls, historyVars, routerVars, exchangeVars, extractVars,
                   handlerVars, startupVars>>

(***************************************************************************)
(* The model router (gemini.service.ts)                                    *)
(***************************************************************************)

\* Bound: the pieces a query is put together from.
MaxQueryPieces == 3

\* the code units of s from index i to index j (1-based, both included), and
\* the empty string where the range leaves s
Substring(s, i, j) == IF i < 1 \/ j > Len(s) \/ i > j THEN "" ELSE SubSeq(s, i, j)

\* the code unit at index i of s
Char(s, i) == Substring(s, i, i)

\* String.prototype.includes
Includes(s, keyword) ==
    \E i \in 1..(Len(s) - Len(keyword) + 1) : Substring(s, i, i + Len(keyword) - 1) = keyword

UpperCaseLetters == "ABCDEFGHIJKLMNOPQRSTUVWXYZ"
LowerCaseLetters == "abcdefghijklmnopqrstuvwxyz"

\* the lower-case mapping of one code unit
LowerChar(c) ==
    IF \E i \in 1..Len(UpperCaseLetters) : Char(UpperCaseLetters, i) = c
    THEN Char(LowerCaseLetters, CHOOSE i \in 1..Len(UpperCaseLetters) : Char(UpperCaseLetters, i) = c)
    ELSE c

RECURSIVE toLowerCase(_)
\* String.prototype.toLowerCase: every code unit mapped, in order
toLowerCase(s) ==
    IF Len(s) = 0 THEN ""
    ELSE IF Len(s) = 1 THEN LowerChar(s)
    ELSE LET half == Len(s) \div 2
         IN  toLowerCase(Substring(s, 1, half)) \o toLowerCase(Substring(s, half + 1, Len(s)))

\* the class \s of a regular expression, over the code units a query is made of
Whitespace == {" ", "\t", "\n", "\r", "\f"}

\* the class \w of a regular expression
WordChars ==
    {Char(UpperCaseLetters, i) : i \in 1..Len(UpperCaseLetters)}
    \cup {Char(LowerCaseLetters, i) : i \in 1..Len(LowerCaseLetters)}
    \cup {"0", "1", "2", "3", "4", "5", "6", "7", "8", "9", "_"}

\* the assertion \b between index i and index i + 1 of s
WordBoundary(s, i) ==
    LET before == i >= 1 /\ i <= Len(s) /\ Char(s, i) \in WordChars
        after  == i + 1 >= 1 /\ i + 1 <= Len(s) /\ Char(s, i + 1) \in WordChars
    IN  before # after

\* /(https?:\/\/[^\s]+)/.test(s)
MatchesUrl(s) ==
    \E i \in 1..Len(s) :
        /\ Substring(s, i, i + 3) = "http"
        /\ \E optional \in {0, 1} :
              /\ optional = 1 => Char(s, i + 4) = "s"
              /\ Substring(s, i + 4 + optional, i + 6 + optional) = "://"
              /\ i + 7 + optional <= Len(s)
              /\ Char(s, i + 7 + optional) \notin Whitespace

QuestionWords == {"who", "what", "when", "where", "why", "how"}

\* /\b(who|what|when|where|why|how)\b/i.test(s)
MatchesQuestionWord(s) ==
    \E i \in 1..Len(s) : \E word \in QuestionWords :
        /\ WordBoundary(s, i - 1)
        /\ toLowerCase(Substring(s, i, i + Len(word) - 1)) = word
        /\ WordBoundary(s, i + Len(word) - 1)

\* (s.match(/\?/g) || []).length
QuestionMarks(s) == Cardinality({i \in 1..Len(s) : Char(s, i) = "?"})

complexityIndicators ==
    {"analyze", "research", "compare", "explain in detail", "comprehensive",
     "what are the latest", "current events", "recent news", "up to date",
     "search for", "find information", "look up", "investigate",
     "tell me about recent", "what happened", "latest updates"}

\* getModelForQuery as exported by gemini.service.ts; "pro" and "flash" stand
\* for config.GEMINI_MODELS.pro and config.GEMINI_MODELS.flash
getModelForQuery(query) ==
    LET queryLower == toLowerCase(query)
        hasComplexityIndicator == \E indicator \in complexityIndicators : Includes(queryLower, indicator)
        isUrlProvided == MatchesUrl(query)
        isLongQuery == Len(query) > 150
        hasQuestionWords == MatchesQuestionWord(queryLower)
    IN  IF hasComplexityIndicator \/ isUrlProvided \/ isLongQuery \/ hasQuestionWords
        THEN "pro"
        ELSE "flash"

\* getModelForQuery as exported by part_017: the same tests as the one above,
\* with the length counting only next to a question word
getModelForQueryPart017(query) ==
    LET queryLower == toLowerCase(query)
        hasComplexityIndicator == \E indicator \in complexityIndicators : Includes(queryLower, indicator)
        isUrlProvided == MatchesUrl(query)
        isLongQuery == Len(query) > 150
        hasQuestionWords == MatchesQuestionWord(queryLower)
    IN  IF hasComplexityIndicator \/ isUrlProvided \/ (isLongQuery /\ hasQuestionWords)
        THEN "pro"
        ELSE "flash"

complexKeywords ==
    {"code", "program", "function", "algorithm", "debug", "error", "fix",
     "explain", "analyze", "compare", "research", "study", "thesis",
     "calculate", "math", "formula", "equation", "solve",
     "step by step", "detailed", "comprehensive", "thorough",
     "complex", "advanced", "technical", "implementation",
     "design", "architecture", "structure", "system",
     "pros and cons", "advantages", "disadvantages",
     "strategy", "plan", "approach", "methodology",
     "review", "summarize", "extract",
     "what time is it", "current time", "timezone",
     "debate", "argue"}

programmingKeywords ==
    {"javascript", "python", "java", "c++", "html", "css", "sql",
     "react", "node", "typescript", "php", "ruby", "go", "rust",
     "api", "database", "server", "client", "framework"}

\* getModelForQuery as declared at gemini.service.ts line 73, the router of
\* the generateResponse that follows it there
getModelForQueryL73(query) ==
    LET queryLower == toLowerCase(query)
        hasComplexKeywords == \E keyword \in complexKeywords : Includes(queryLower, keyword)
        hasProgrammingKeywords == \E keyword \in programmingKeywords : Includes(queryLower, keyword)
        isLongQuery == Len(query) > 200
        hasMultipleQuestions == QuestionMarks(query) > 1
        wantsTime ==
            Includes(queryLower, "time")
            /\ (Includes(queryLower, "what") \/ Includes(queryLower, "current"))
    IN  IF hasComplexKeywords \/ hasProgrammingKeywords \/ isLongQuery
            \/ hasMultipleQuestions \/ wantsTime
        THEN "pro"
        ELSE "flash"

RECURSIVE Repeat(_, _)
\* String.prototype.repeat
Repeat(s, n) ==
    IF n = 0 THEN ""
    ELSE IF n = 1 THEN s
    ELSE Repeat(s, n \div 2) \o Repeat(s, n - (n \div 2))

\* what a query is put together from: the URL schemes, a host, white space, a
\* keyword of both routers, a keyword of the earlier one, a question word, a
\* question mark, and a run of text longer than the first length threshold
\* (two of them are longer than the second)
QueryPieces ==
    {"https://", "http://", "example.com", " ", "Analyze", "go", "what", "?",
     Repeat("x", 151)}

RECURSIVE QueriesOf(_)
\* the queries made of at most n pieces
QueriesOf(n) ==
    IF n = 0 THEN {""}
    ELSE LET shorter == QueriesOf(n - 1)
         IN  shorter \cup {q \o piece : q \in shorter, piece \in QueryPieces}

Queries == QueriesOf(MaxQueryPieces)

\* config.GEMINI_MODELS
GEMINI_MODELS == [flash |-> "gemini-2.5-flash", pro |-> "gemini-2.5-pro"]

\* part_011 line 397, generateResponse: the modelChoice it gets from
\* getModelForQuery (line 426, the same tests as the exported one) and the
\* tools and the modelToUse of the request it hands to generateContentWithFallback
requestL397(prompt) ==
    LET modelChoice == GEMINI_MODELS[getModelForQuery(prompt)]
    IN  [modelChoice |-> modelChoice,
         tools |-> IF modelChoice = GEMINI_MODELS.pro THEN <<"googleSearch">> ELSE <<>>,
         modelToUse |-> IF modelChoice = "pro" THEN "pro" ELSE "flash"]

\* part_011 line 309, generateContentWithFallback: the model of its first
\* generateContent call
firstModelL309(request) ==
    IF request.modelToUse = "pro" THEN GEMINI_MODELS.pro ELSE GEMINI_MODELS.flash

NotRouted ==
    [done |-> FALSE, query |-> "", exported |-> "none", l73 |-> "none", part017 |-> "none",
     l397 |-> [request |-> <<>>, first |-> "none"]]

\* no message has come in
RouterIdle ==
    /\ routerQuery = ""
    /\ routed = NotRouted

\* a message has come in, with its text
RouterInit ==
    /\ routerQuery \in Queries
    /\ routed = NotRouted

\* generateResponse picks the model for the prompt: const modelName = getModelForQuery(prompt)
\* at the exported router, const modelType = getModelForQuery(query) at the earlier one
RouteQuery ==
    /\ ~routed.done
    /\ routed' = [done |-> TRUE, query |-> routerQuery,
                  exported |-> getModelForQuery(routerQuery),
                  l73 |-> getModelForQueryL73(routerQuery),
                  part017 |-> getModelForQueryPart017(routerQuery),
                  l397 |-> [request |-> requestL397(routerQuery),
                            first |-> firstModelL309(requestL397(routerQuery))]]
    /\ UNCHANGED <<routerQuery, historyVars, profileVars, exchangeVars, extractVars,
                   handlerVars, startupVars>>

(***************************************************************************)
(* The prompt generateResponse assembles (gemini.service.ts and its        *)
(* earlier declarations)                                                   *)
(***************************************************************************)

\* config.SYSTEM_PROMPT: a user-role turn; its text is the persona text,
\* here by its first sentence
SYSTEM_PROMPT == Content("user", "You are Wabot, an exceptionally capable Discord assistant powered by Google's Gemini models.")

RECURSIVE KeysInOrder(_)
\* Object.keys(obj) as a list: the own keys, one after the other
KeysInOrder(keys) ==
    IF keys = {} THEN <<>>
    ELSE LET k == CHOOSE x \in keys : TRUE
         IN  <<k>> \o KeysInOrder(keys \ {k})

\* Object.keys(obj)
ObjectKeys(obj) == KeysInOrder(DOMAIN obj)

RECURSIVE JoinMembers(_, _)
\* the members of JSON.stringify(obj, null, 2): one line "  \"key\": \"value\""
\* for each key, with ",\n" between two lines
JoinMembers(obj, keys) ==
    IF Len(keys) = 0 THEN ""
    ELSE "  \"" \o Head(keys) \o "\": \"" \o obj[Head(keys)] \o "\""
         \o (IF Len(keys) = 1 THEN "" ELSE ",\n" \o JoinMembers(obj, Tail(keys)))

\* JSON.stringify(obj, null, 2) of an object whose values are strings
JSONStringify(obj) ==
    IF DOMAIN obj = {} THEN "{}"
    ELSE "{\n" \o JoinMembers(obj, ObjectKeys(obj)) \o "\n}"

\* the text of the memory-context turn
profileText(userProfile) ==
    "This is my user profile, use it for context: " \o JSONStringify(userProfile.automaticMemory)

\* the text of the acknowledgement turn
MemoryAck == "Got it. I'll keep that in mind."

\* the condition under which generateResponse adds the memory pair
HasProfileContext(userProfile) ==
    /\ userProfile.memoryEnabled
    /\ Len(ObjectKeys(userProfile.automaticMemory)) > 0

\* part_017, generateResponse: the contents handed to generateContentWithFallback
contentsPart017(prompt, userProfile, conversationHistory) ==
    LET contents == <<SYSTEM_PROMPT>> \o conversationHistory
        withProfile ==
            IF HasProfileContext(userProfile)
            THEN contents \o <<Content("user", profileText(userProfile)), Content("model", MemoryAck)>>
            ELSE contents
    IN  Append(withProfile, Content("user", prompt))

\* gemini.service.ts line 772, generateResponse: the history the chat is
\* started with, and the turns the provider is sent by chat.sendMessage(prompt)
chatL772(prompt, userProfile, conversationHistory) ==
    LET history == <<SYSTEM_PROMPT>> \o conversationHistory
        withProfile ==
            IF HasProfileContext(userProfile)
            THEN history \o <<Content("user", profileText(userProfile)), Content("model", MemoryAck)>>
            ELSE history
    IN  [history |-> withProfile, turns |-> Append(withProfile, Content("user", prompt))]

(***************************************************************************)
(* Strings, as generateResponse and its callers cut and measure them       *)
(***************************************************************************)

\* config.MAX_RESPONSE_LENGTH
MAX_RESPONSE_LENGTH == 2000

\* whether the code unit at index i of s is white space
IsSpace(s, i) == Char(s, i) \in Whitespace

\* the largest member of a non-empty set of integers
Largest(S) == CHOOSE x \in S : \A y \in S : y <= x

\* String.prototype.trim: s from its first to its last code unit that is not
\* white space
Trim(s) ==
    IF \A i \in 1..Len(s) : IsSpace(s, i) THEN ""
    ELSE LET first == CHOOSE i \in 1..Len(s) :
                          ~IsSpace(s, i) /\ \A j \in 1..(i - 1) : IsSpace(s, j)
             tail  == CHOOSE k \in 0..(Len(s) - 1) :
                          ~IsSpace(s, Len(s) - k) /\ \A j \in 0..(k - 1) : IsSpace(s, Len(s) - j)
         IN  Substring(s, first, Len(s) - tail)

\* String.prototype.slice(0, end) for 0 <= end
SliceTo(s, end) == Substring(s, 1, IF end > Len(s) THEN Len(s) ELSE end)

\* String.prototype.lastIndexOf(c): the 0-based index of the last c, or -1
LastIndexOf(s, c) ==
    IF \A i \in 1..Len(s) : SubSeq(s, i, i) # c THEN -1
    ELSE LET tail == CHOOSE k \in 0..(Len(s) - 1) :
                         /\ SubSeq(s, Len(s) - k, Len(s) - k) = c
                         /\ \A j \in 0..(k - 1) : SubSeq(s, Len(s) - j, Len(s) - j) # c
         IN  Len(s) - tail - 1

\* truncateAtSentence(text, maxLength), for a text that is longer than maxLength
truncateLong(text, maxLength) ==
    LET truncated == SliceTo(text, maxLength)
        lastSentenceEnd ==
            Largest({LastIndexOf(truncated, "."), LastIndexOf(truncated, "!"),
                     LastIndexOf(truncated, "?"), LastIndexOf(truncated, "\n")})
        lastSpace == LastIndexOf(truncated, " ")
    IN  IF 2 * lastSentenceEnd > maxLength
        THEN SliceTo(truncated, lastSentenceEnd + 1)
        ELSE IF lastSpace > 0 THEN SliceTo(truncated, lastSpace) ELSE truncated

\* truncateAtSentence(text, maxLength)
truncateAtSentence(text, maxLength) ==
    IF Len(text) <= maxLength THEN text ELSE truncateLong(text, maxLength)

\* the mark summarizeText puts after a text it has cut
TruncatedMark == "\n\n*(Response truncated)*"

RECURSIVE Concat(_)
\* the texts of a list of chunks, one after the other
Concat(chunks) == IF Len(chunks) = 0 THEN "" ELSE Head(chunks) \o Concat(Tail(chunks))

RECURSIVE StreamText(_, _, _)
\* for await (const chunk of result.stream): fullResponse += chunk.text(), and
\* the loop is left once fullResponse is longer than limit
StreamText(fullResponse, chunks, limit) ==
    IF Len(chunks) = 0 THEN fullResponse
    ELSE LET grown == fullResponse \o Head(chunks)
         IN  IF Len(grown) > limit THEN grown ELSE StreamText(grown, Tail(chunks), limit)

RECURSIVE MatchChunks(_)
\* trimmedContent.match(/[\s\S]{1,2000}/g): the text in pieces of 2000 code
\* units, the last one shorter
MatchChunks(s) ==
    IF Len(s) = 0 THEN <<>>
    ELSE IF Len(s) <= 2000 THEN <<s>>
    ELSE <<Substring(s, 1, 2000)>> \o MatchChunks(Substring(s, 2001, Len(s)))

\* createErrorEmbed(description): the title and the description of the embed
createErrorEmbed(description) == "Oops! Something went wrong. " \o description

\* smartReply(message, channel, content): the messages it sends, in order
smartReply(content) ==
    LET trimmedContent == Trim(content)
    IN  IF trimmedContent = ""
        THEN <<createErrorEmbed("I received an empty response. Please try again.")>>
        ELSE IF Len(trimmedContent) <= 4096 THEN <<trimmedContent>>
        ELSE MatchChunks(trimmedContent)

(***************************************************************************)
(* The provider, and the declarations of generateResponse                  *)
(***************************************************************************)

\* the declarations of generateResponse a build of the bot may link:
\* gemini.service.ts line 153 and line 772, and those of part_011, part_013,
\* part_015 and part_017
Services == {"L153", "L772", "part011", "part013", "part015", "part017"}

\* the texts of the messages users send
ExchangeQueries == {"hello", "https://example.com"}

\* a reply of three sentences to the chunk, 1700 code units a chunk
SentenceChunk == Repeat("123456789 abcdefgh. ", 85)

\* what the provider may stream or return as the text of one completion, in
\* chunks: a short reply, nothing, white space, two letters, a reply of 6800
\* code units in sentences, and one of 5000 code units with no break in it
ProviderTexts ==
    {<<"Hi there!">>, <<>>, <<"  \n">>, <<"Hi">>,
     <<SentenceChunk, SentenceChunk, SentenceChunk, SentenceChunk>>,
     <<Repeat("x", 5000)>>}

\* the messages of the errors the provider call may raise: quota, safety
\* block, network, and one of no recognised kind
ProviderErrors ==
    {"[429 Too Many Requests] quota exceeded", "Response was blocked due to safety",
     "fetch failed", "[500 Internal Server Error] upstream timeout"}

\* the functions the model may ask for: the declared one and an undeclared one
ToolNames == {"get_current_time", "get_weather"}

\* what one provider call may come to
ProviderOutcomes ==
    {[kind |-> "text", chunks |-> t, message |-> "", tool |-> ""] : t \in ProviderTexts}
    \cup {[kind |-> "error", chunks |-> <<>>, message |-> m, tool |-> ""] : m \in ProviderErrors}
    \cup {[kind |-> "toolCall", chunks |-> <<>>, message |-> "", tool |-> f] : f \in ToolNames}

\* the canned messages of the declarations of generateResponse
ErrorProcessing == "I encountered an error while processing your request. Please try again."
BothSystemsFailed == "I encountered an issue with both my primary and backup AI systems. Please try again."
UnableToGenerate == "I apologize, but I was unable to generate a response at this time."
CouldNotGenerate == "I'm sorry, I couldn't generate a proper response. Could you please rephrase your question?"
HighUsage == "I'm experiencing high usage right now. Please try again in a moment."
SafetyL153 == "I can't provide a response to that request due to my safety guidelines. Please try asking something else."
NetworkL153 == "I'm having trouble connecting to the AI service. Please check your connection and try again."
SafetyPart011 == "I can't provide a response to that request. Please try asking something else."
NetworkPart011 == "I'm having trouble connecting to my AI service. Please try again."
ErrorGenerating == "Sorry, I encountered an error while generating a response. Please try again."
ToolFailed == "I tried to use a tool, but it failed: "

\* what a declaration of generateResponse does next: issue a provider call,
\* return a text, or throw
Call(stage, callModel, key, carried) ==
    [next |-> "call", stage |-> stage, callModel |-> callModel, key |-> key,
     carried |-> carried, text |-> "", message |-> ""]
Return(text) ==
    [next |-> "return", stage |-> "", callModel |-> "", key |-> "",
     carried |-> "", text |-> text, message |-> ""]
Throw(message) ==
    [next |-> "throw", stage |-> "", callModel |-> "", key |-> "",
     carried |-> "", text |-> "", message |-> message]

\* the text of a completion that is not streamed: result.response.text()
ResponseText(outcome) == Concat(outcome.chunks)

\* gemini.service.ts line 153, generateResponse: what follows the loop over the stream
afterStreamL153(fullResponse, toolCallDetected) ==
    IF ~toolCallDetected /\ Len(Trim(fullResponse)) < 1 THEN Return(CouldNotGenerate)
    ELSE IF Len(fullResponse) > MAX_RESPONSE_LENGTH THEN Return(fullResponse)
    ELSE Return(Trim(fullResponse))

\* gemini.service.ts line 153, generateResponse: its catch block
catchL153(message) ==
    IF Includes(message, "quota") \/ Includes(message, "rate limit") THEN Return(HighUsage)
    ELSE IF Includes(message, "safety") THEN Return(SafetyL153)
    ELSE IF Includes(message, "network") \/ Includes(message, "fetch") THEN Return(NetworkL153)
    ELSE Throw(message)

\* gemini.service.ts line 153, generateResponse, from the provider call that
\* has come to outcome on
generateResponseL153(stage, callModel, carried, outcome) ==
    IF stage = "stream"
    THEN CASE outcome.kind = "text" ->
                  afterStreamL153(StreamText("", outcome.chunks, MAX_RESPONSE_LENGTH * 4), FALSE)
           [] outcome.kind = "error" -> catchL153(outcome.message)
           [] outcome.kind = "toolCall" ->
                  IF outcome.tool = "get_current_time"
                  THEN Call("tool", callModel, "primary", "")
                  ELSE afterStreamL153(ToolFailed \o "Unknown function: " \o outcome.tool, TRUE)
    ELSE CASE outcome.kind = "text" -> afterStreamL153(carried \o ResponseText(outcome), TRUE)
           [] outcome.kind = "error" -> afterStreamL153(ToolFailed \o outcome.message, TRUE)

\* gemini.service.ts line 772, generateResponse, from the provider call on
generateResponseL772(outcome) ==
    IF outcome.kind = "error" THEN Return(ErrorProcessing) ELSE Return(ResponseText(outcome))

\* part_013, generateResponse, from the provider call on
generateResponsePart013(outcome) ==
    IF outcome.kind = "error" THEN Return(ErrorProcessing)
    ELSE IF ResponseText(outcome) = "" THEN Return(UnableToGenerate)
    ELSE Return(ResponseText(outcome))

\* part_017, generateContentWithFallback, from the provider call on: the call
\* on the flash model (stage "flash") or the one on the pro model (stage "pro")
generateContentWithFallback(stage, outcome) ==
    IF outcome.kind = "error"
    THEN IF stage = "flash" THEN Call("pro", "pro", "primary", "") ELSE Throw(outcome.message)
    ELSE Return(Trim(ResponseText(outcome)))

\* part_017, generateResponse, from the provider call on
generateResponsePart017(stage, outcome) ==
    LET result == generateContentWithFallback(stage, outcome)
    IN  IF result.next = "throw" THEN Return(ErrorProcessing) ELSE result

\* plausible bug: the summary is returned whatever its length
summarizeTextUnchecked(text, outcome) ==
    IF outcome.kind = "error"
    THEN Return(truncateAtSentence(text, MAX_RESPONSE_LENGTH - 50) \o TruncatedMark)
    ELSE Return(Trim(ResponseText(outcome)))

\* part_011, summarizeText(text), from its provider call on
summarizeText(text, outcome) ==
    IF outcome.kind = "error"
    THEN Return(truncateAtSentence(text, MAX_RESPONSE_LENGTH - 50) \o TruncatedMark)
    ELSE LET summary == Trim(ResponseText(outcome))
         IN  IF Len(summary) > MAX_RESPONSE_LENGTH
             THEN Return(truncateAtSentence(summary, MAX_RESPONSE_LENGTH - 50) \o TruncatedMark)
             ELSE Return(summary)

\* part_011, generateResponse: its catch block
catchPart011(message) ==
    IF Includes(message, "quota") \/ Includes(message, "rate limit") THEN Return(HighUsage)
    ELSE IF Includes(message, "safety") THEN Return(SafetyPart011)
    ELSE IF Includes(message, "network") \/ Includes(message, "fetch") THEN Return(NetworkPart011)
    ELSE Return(ErrorGenerating)

\* part_011, generateResponse, from the provider call on
generateResponsePart011(stage, carried, outcome) ==
    IF stage = "summarize" THEN summarizeText(carried, outcome)
    ELSE IF outcome.kind = "error" THEN catchPart011(outcome.message)
    ELSE LET fullResponse == StreamText("", outcome.chunks, MAX_RESPONSE_LENGTH * 2)
         IN  IF Len(Trim(fullResponse)) < 5 THEN Return(CouldNotGenerate)
             ELSE IF Len(fullResponse) > MAX_RESPONSE_LENGTH
             THEN Call("summarize", "flash", "primary", fullResponse)
             ELSE Return(Trim(fullResponse))

\* plausible bug: the pro model is tried again even when the first attempt
\* was already on it
generateWithModelFallbackAlways(stage, modelName, key, outcome) ==
    IF outcome.kind = "error"
    THEN IF stage = "first"
         THEN Call("fallback", "pro", key, "")
         ELSE Throw(outcome.message)
    ELSE Return(ResponseText(outcome))

\* part_015, _generateWithModelFallback(client, ...), from the provider call
\* on: the first attempt (stage "first") or the one on the pro model
\* (stage "fallback")
generateWithModelFallback(stage, modelName, key, outcome) ==
    IF outcome.kind = "error"
    THEN IF stage = "first" /\ modelName # "pro"
         THEN Call("fallback", "pro", key, "")
         ELSE Throw(outcome.message)
    ELSE Return(ResponseText(outcome))

\* part_015, generateResponse, from the provider call on
generateResponsePart015(stage, modelName, key, hasSecondaryKey, outcome) ==
    LET result == generateWithModelFallback(stage, modelName, key, outcome)
    IN  IF result.next # "throw" THEN result
        ELSE IF key = "primary"
        THEN IF hasSecondaryKey THEN Call("first", modelName, "secondary", "")
             ELSE Return(ErrorProcessing)
        ELSE Return(BothSystemsFailed)

(***************************************************************************)
(* processGeminiQuery (messageCreate.handler.ts): one free-text exchange   *)
(***************************************************************************)

\* part_011, getModelForQuery: the keywords of line 73 without the later ones
complexKeywordsPart011 ==
    complexKeywords \ {"review", "summarize", "extract", "what time is it",
                       "current time", "timezone", "debate", "argue"}

\* part_011, getModelForQuery
getModelForQueryPart011(query) ==
    LET queryLower == toLowerCase(query)
        hasComplexKeywords == \E keyword \in complexKeywordsPart011 : Includes(queryLower, keyword)
        hasProgrammingKeywords == \E keyword \in programmingKeywords : Includes(queryLower, keyword)
        isLongQuery == Len(query) > 200
        hasMultipleQuestions == QuestionMarks(query) > 1
    IN  IF hasComplexKeywords \/ hasProgrammingKeywords \/ isLongQuery \/ hasMultipleQuestions
        THEN "pro"
        ELSE "flash"

\* the models the router of a declaration of generateResponse may pick for a
\* query; the getModelForQuery of the file of part_015 that starts at its
\* line 204 is not in the sources, so either model may come out of it
RoutedModels(svc, query) ==
    CASE svc = "L153" -> {getModelForQueryL73(query)}
      [] svc = "L772" -> {getModelForQuery(query)}
      [] svc = "part011" -> {getModelForQueryPart011(query)}
      [] svc = "part013" -> {getModelForQuery(query)}
      [] svc = "part015" -> {"flash", "pro"}
      [] svc = "part017" -> {getModelForQueryPart017(query)}

RECURSIVE MemoryLines(_, _)
\* the lines "\n  - key: value" of the for...in loop over customMemory
MemoryLines(memory, keys) ==
    IF Len(keys) = 0 THEN ""
    ELSE "\n  - " \o Head(keys) \o ": " \o memory[Head(keys)] \o MemoryLines(memory, Tail(keys))

\* whether the profile has a non-empty string under field
HasText(userProfile, field) == field \in DOMAIN userProfile /\ userProfile[field] # ""

\* gemini.service.ts line 153, generateResponse: currentSystemInstruction
systemInstructionL153(userProfile) ==
    SYSTEM_PROMPT.text
    \o (IF HasText(userProfile, "tone") THEN "\n- Adopt a " \o userProfile.tone \o " tone." ELSE "")
    \o (IF HasText(userProfile, "persona") THEN "\n- Act as a " \o userProfile.persona \o "." ELSE "")
    \o (IF Len(ObjectKeys(userProfile.customMemory)) > 0
        THEN "\n- Remember the following about the user:"
             \o MemoryLines(userProfile.customMemory, ObjectKeys(userProfile.customMemory))
        ELSE "")

\* plausible bug: the memory pair is pushed on the list the caller passed
chatPart013Pushes(prompt, userProfile, conversationHistory) ==
    LET pushed ==
            IF HasProfileContext(userProfile)
            THEN conversationHistory
                 \o <<Content("user", profileText(userProfile)), Content("model", MemoryAck)>>
            ELSE conversationHistory
    IN  [history |-> <<SYSTEM_PROMPT>> \o pushed,
         turns |-> Append(<<SYSTEM_PROMPT>> \o pushed, Content("user", prompt)),
         conversationHistory |-> pushed]

\* part_013, generateResponse: the history the chat is created with, the turns
\* the provider is sent by chat.sendMessage(prompt), and the list the caller
\* passed as it is after the call
chatPart013(prompt, userProfile, conversationHistory) ==
    LET history == <<SYSTEM_PROMPT>> \o conversationHistory
        withProfile ==
            IF HasProfileContext(userProfile)
            THEN history \o <<Content("user", profileText(userProfile)), Content("model", MemoryAck)>>
            ELSE history
    IN  [history |-> withProfile,
         turns |-> Append(withProfile, Content("user", prompt)),
         conversationHistory |-> conversationHistory]

\* what a declaration of generateResponse puts together before its first
\* provider call: the system instruction it sets (none: ""), the turns it
\* sends, and the caller's list as it leaves it
Assemble(svc, prompt, userProfile, conversationHistory) ==
    CASE svc = "L153" ->
             [systemInstruction |-> systemInstructionL153(userProfile),
              turns |-> Append(conversationHistory, Content("user", prompt)),
              conversationHistory |-> conversationHistory]
      [] svc = "part011" ->
             [systemInstruction |-> SYSTEM_PROMPT.text,
              turns |-> Append(conversationHistory, Content("user", prompt)),
              conversationHistory |-> conversationHistory]
      [] svc = "part013" ->
             [systemInstruction |-> "",
              turns |-> chatPart013(prompt, userProfile, conversationHistory).turns,
              conversationHistory |->
                  chatPart013(prompt, userProfile, conversationHistory).conversationHistory]
      [] svc = "part017" ->
             [systemInstruction |-> "",
              turns |-> contentsPart017(prompt, userProfile, conversationHistory),
              conversationHistory |-> conversationHistory]
      [] OTHER ->
             [systemInstruction |-> "",
              turns |-> chatL772(prompt, userProfile, conversationHistory).turns,
              conversationHistory |-> conversationHistory]

\* the first provider call of a declaration of generateResponse
FirstCall(svc, modelName) ==
    CASE svc \in {"L153", "part011"} -> Call("stream", modelName, "primary", "")
      [] svc = "part017" -> Call(IF modelName = "pro" THEN "pro" ELSE "flash",
                                 IF modelName = "pro" THEN "pro" ELSE "flash", "primary", "")
      [] OTHER -> Call("first", modelName, "primary", "")

\* the declaration of generateResponse of the build, from the provider call
\* that has come to outcome on
generateResponse(svc, ex, hasSecondaryKey, outcome) ==
    CASE svc = "L153" -> generateResponseL153(ex.stage, ex.callModel, ex.carried, outcome)
      [] svc = "L772" -> generateResponseL772(outcome)
      [] svc = "part011" -> generateResponsePart011(ex.stage, ex.carried, outcome)
      [] svc = "part013" -> generateResponsePart013(outcome)
      [] svc = "part015" ->
             generateResponsePart015(ex.stage, ex.modelName, ex.key, hasSecondaryKey, outcome)
      [] svc = "part017" -> generateResponsePart017(ex.stage, outcome)

\* no exchange has been started
NoExchange ==
    [pc |-> "idle", channelId |-> "", userId |-> "", query |-> "", modelName |-> "",
     given |-> <<>>, left |-> <<>>, held |-> FALSE,
     systemInstruction |-> "", turns |-> <<>>, userProfile |-> DefaultProfile,
     stage |-> "", callModel |-> "", key |-> "", carried |-> "", attempts |-> <<>>,
     outcomes |-> <<>>, result |-> "none", returned |-> "", message |-> "", reply |-> <<>>]

\* the builds: a declaration of generateResponse, and whether
\* GEMINI_SECONDARY_API_KEY is set (part_015 alone reads it in generateResponse)
ExchangeInit ==
    /\ service \in Services
    /\ secondaryApiKey \in (IF service = "part015" THEN BOOLEAN ELSE {FALSE})
    /\ exchange = NoExchange

\* no build is looked at
ExchangeIdle ==
    /\ service = "L772"
    /\ secondaryApiKey = FALSE
    /\ exchange = NoExchange

\* a history a channel may hold when an exchange starts: n turns left by
\* earlier exchanges, a query and its reply by turns
RECURSIVE PriorTurns(_)
PriorTurns(n) ==
    IF n = 0 THEN <<>>
    ELSE Append(PriorTurns(n - 1),
                IF n % 2 = 1 THEN Content("user", "hello") ELSE Content("model", "Hi there!"))

\* the histories the buffer may hold when an exchange starts: none, one
\* exchange under c1, and a full list under c1
PriorHistories ==
    {<<>>, [c1 |-> PriorTurns(2)], [c1 |-> PriorTurns(HistoryLimit)]}

\* the state of the history buffer when an exchange starts
ExchangeHistoryInit ==
    /\ conversationHistories \in PriorHistories
    /\ appended = [c \in Channels |->
                      IF MapHas(conversationHistories, c) THEN conversationHistories[c] ELSE <<>>]
    /\ appendCount = [c \in Channels |-> Len(appended[c])]
    /\ historyCall = [op |-> "none", channelId |-> "none", returned |-> <<>>, evicted |-> 0]

\* the profiles the store may hold when an exchange starts: those of
\* StoredDocuments, one with the memory switched off, one with a manual memory
\* alone, and one with two automatic memories and a manual one
ExchangeDocuments ==
    StoredDocuments
    \cup {[u1 |-> [memoryEnabled |-> FALSE, customMemory |-> <<>>,
                   automaticMemory |-> [city |-> "Turin"]]],
          [u1 |-> [memoryEnabled |-> TRUE, customMemory |-> [city |-> "Rome"],
                   automaticMemory |-> <<>>]],
          [u1 |-> [memoryEnabled |-> TRUE, customMemory |-> [city |-> "Rome"],
                   automaticMemory |-> [city |-> "Turin", job |-> "chef"]]]}

\* the state of the profile store when an exchange starts: before the ready
\* event (and the file is yet to be made), or after it with the document of
\* the file loaded
ExchangeProfileInit ==
    /\ storage \in ExchangeDocuments
    /\ dbReady \in (IF storage = <<>> THEN BOOLEAN ELSE {TRUE})
    /\ userProfiles = IF dbReady THEN storage ELSE <<>>
    /\ writer = <<>>
    /\ profileCall = NoCall
    /\ profileReturn = <<>>
    /\ profileCalls = 0

\* the reset command comes in while the provider call is awaited
ResetArrives(c) ==
    /\ exchange.pc = "calling"
    /\ MapHas(conversationHistories, c)
    /\ ClearHistory(c)

\* processGeminiQuery(message, prompt, queryForHistory) up to the first
\* provider call of generateResponse: getHistory, getProfile, the router and
\* the assembly of the prompt
StartExchange(c, u, q) ==
    /\ exchange.pc = "idle"
    /\ \E modelName \in RoutedModels(service, q) :
          LET history == getHistory(conversationHistories, c).returned
              g == getProfile(dbReady, userProfiles, u)
              a == Assemble(service, q, g.profile, history)
              first == FirstCall(service, modelName)
          IN  /\ userProfiles' = g.userProfiles
              /\ conversationHistories' =
                     IF MapHas(conversationHistories, c)
                     THEN MapSet(conversationHistories, c, a.conversationHistory)
                     ELSE conversationHistories
              /\ exchange' =
                     [NoExchange EXCEPT
                         !.pc = "calling", !.channelId = c, !.userId = u, !.query = q,
                         !.modelName = modelName, !.given = history,
                         !.left = a.conversationHistory,
                         !.held = MapHas(conversationHistories, c),
                         !.systemInstruction = a.systemInstruction, !.turns = a.turns,
                         !.userProfile = g.profile,
                         !.stage = first.stage, !.callModel = first.callModel,
                         !.key = first.key, !.carried = first.carried,
                         !.attempts = <<[model |-> first.callModel, key |-> first.key]>>]
    /\ historyCall' = [op |-> "get", channelId |-> c,
                       returned |-> getHistory(conversationHistories, c).returned, evicted |-> 0]
    /\ UNCHANGED <<appended, appendCount, dbReady, storage, writer, profileCall,
                   profileReturn, profileCalls, service, secondaryApiKey, routerVars,
                   extractVars, handlerVars, startupVars>>

\* the error reply of processGeminiQuery's catch block
errorReply(errorMessage) ==
    <<createErrorEmbed("Sorry, an error occurred while talking to Gemini. \n*Details: "
                       \o errorMessage \o "*")>>

\* plausible bug: the reply is appended before the query
appendExchangeReplyFirst(histories, channelId, queryForHistory, responseText) ==
    addMessageToHistory(
        addMessageToHistory(histories, channelId, "model", responseText),
        channelId, "user", queryForHistory)

\* processGeminiQuery, after generateResponse has returned: the two calls of
\* addMessageToHistory
appendExchange(histories, channelId, queryForHistory, responseText) ==
    addMessageToHistory(
        addMessageToHistory(histories, channelId, "user", queryForHistory),
        channelId, "model", responseText)

\* a provider call comes to an outcome: generateResponse goes on to its next
\* provider call, or it returns and processGeminiQuery appends the two turns
\* and replies, or it throws and processGeminiQuery replies with the error
ProviderResponds(outcome) ==
    /\ exchange.pc = "calling"
    /\ outcome.kind = "toolCall" => (service = "L153" /\ exchange.stage = "stream")
    /\ LET r == generateResponse(service, exchange, secondaryApiKey, outcome)
           c == exchange.channelId
           seen == [exchange EXCEPT
                       !.outcomes = Append(@, [kind |-> outcome.kind, text |-> ResponseText(outcome)])]
       IN  CASE r.next = "call" ->
                    /\ exchange' =
                           [seen EXCEPT
                               !.stage = r.stage, !.callModel = r.callModel, !.key = r.key,
                               !.carried = r.carried,
                               !.attempts = Append(@, [model |-> r.callModel, key |-> r.key])]
                    /\ UNCHANGED <<conversationHistories, appended, appendCount, historyCall>>
             [] r.next = "return" ->
                    /\ conversationHistories' =
                           appendExchange(conversationHistories, c, exchange.query, r.text)
                    /\ appended' =
                           [appended EXCEPT
                               ![c] = @ \o <<Content("user", exchange.query), Content("model", r.text)>>]
                    /\ appendCount' = [appendCount EXCEPT ![c] = @ + 2]
                    /\ historyCall' =
                           [op |-> "add", channelId |-> c, returned |-> <<>>,
                            evicted |-> Len(getHistory(conversationHistories, c).returned) + 2
                                        - Len(conversationHistories'[c])]
                    /\ exchange' =
                           [seen EXCEPT !.pc = "replied", !.result = "return",
                                        !.returned = r.text, !.reply = smartReply(r.text)]
             [] r.next = "throw" ->
                    /\ exchange' =
                           [seen EXCEPT !.pc = "replied", !.result = "throw",
                                        !.message = r.message, !.reply = errorReply(r.message)]
                    /\ UNCHANGED <<conversationHistories, appended, appendCount, historyCall>>
    /\ UNCHANGED <<service, secondaryApiKey, profileVars, routerVars, extractVars,
                   handlerVars, startupVars>>

(***************************************************************************)
(* extractMemoryFromConversation (gemini.service.ts line 703, part_015     *)
(* line 418)                                                               *)
(***************************************************************************)

\* Bound: the pieces the model's output is put together from.
MaxOutputPieces == 4

\* the 1-based index of the first sep in s, 0 if there is none
IndexOf(s, sep) ==
    LET found == {i \in 1..(Len(s) - Len(sep) + 1) : Substring(s, i, i + Len(sep) - 1) = sep}
    IN  IF found = {} THEN 0 ELSE CHOOSE i \in found : \A j \in found : i <= j

RECURSIVE Split(_, _)
\* String.prototype.split(sep), sep not empty: the pieces of s between the
\* occurrences of sep, from left to right
Split(s, sep) ==
    LET at == IndexOf(s, sep)
    IN  IF at = 0 THEN <<s>>
        ELSE <<Substring(s, 1, at - 1)>> \o Split(Substring(s, at + Len(sep), Len(s)), sep)

\* the declarations of extractMemoryFromConversation
Extractors == {"L703", "part015"}

\* the action tokens a declaration takes: ADD and UPDATE at
\* gemini.service.ts line 703, SAVE at part_015 line 418
ActionTokens(decl) == IF decl = "L703" THEN {"ADD", "UPDATE"} ELSE {"SAVE"}

\* what the call comes to
NoMemory == [kind |-> "null", key |-> "", value |-> ""]
Memory(key, value) == [kind |-> "record", key |-> key, value |-> value]
Raised == [kind |-> "throw", key |-> "", value |-> ""]

\* plausible bug: the number of parts is not looked at, the first three are taken
parseMemoryThreeOrMore(decl, output) ==
    LET text == Trim(output)
    IN  IF text = "" \/ text = "null" \/ ~Includes(text, "::") THEN NoMemory
        ELSE LET parts == Split(text, "::")
             IN  IF Len(parts) < 3 THEN NoMemory
                 ELSE LET action == Trim(parts[1])
                          key == Trim(parts[2])
                          value == Trim(parts[3])
                      IN  IF action \in ActionTokens(decl) /\ key # "" /\ value # ""
                          THEN Memory(key, value)
                          ELSE NoMemory

\* extractMemoryFromConversation, from the text of the model's output on
parseMemory(decl, output) ==
    LET text == Trim(output)
    IN  IF text = "" \/ text = "null" \/ ~Includes(text, "::") THEN NoMemory
        ELSE LET parts == Split(text, "::")
             IN  IF Len(parts) # 3 THEN NoMemory
                 ELSE LET action == Trim(parts[1])
                          key == Trim(parts[2])
                          value == Trim(parts[3])
                      IN  IF action \in ActionTokens(decl) /\ key # "" /\ value # ""
                          THEN Memory(key, value)
                          ELSE NoMemory

\* extractMemoryFromConversation(userQuery, userProfile), from its provider
\* call on: the call threw (the catch block returns null), the result has no
\* text (result.text is undefined, part_015 alone), or it has one
extractMemoryFromConversation(decl, outcome) ==
    CASE outcome.kind = "error" -> NoMemory
      [] outcome.kind = "noText" -> NoMemory
      [] OTHER -> parseMemory(decl, outcome.text)

\* the pieces the outputs of the model are put together from
OutputPieces == {"ADD", "UPDATE", "SAVE", "::city", "::Rome", "::", " ", "null"}

RECURSIVE OutputsOf(_)
\* the outputs of at most n pieces
OutputsOf(n) ==
    IF n = 0 THEN {""}
    ELSE OutputsOf(n - 1) \cup {o \o p : o \in OutputsOf(n - 1), p \in OutputPieces}

\* what the provider call of a declaration may come to
ExtractOutcomes(decl) ==
    {[kind |-> "text", text |-> o] : o \in OutputsOf(MaxOutputPieces)}
    \cup {[kind |-> "error", text |-> ""]}
    \cup (IF decl = "part015" THEN {[kind |-> "noText", text |-> ""]} ELSE {})

\* no extraction is looked at
ExtractIdle ==
    extraction = [pc |-> "idle", decl |-> "L703", outcome |-> [kind |-> "error", text |-> ""],
                  result |-> NoMemory]

\* a declaration is about to be called and its provider call will come to outcome
ExtractInit ==
    \E decl \in Extractors :
        \E outcome \in ExtractOutcomes(decl) :
            extraction = [pc |-> "called", decl |-> decl, outcome |-> outcome,
                          result |-> NoMemory]

(***************************************************************************)
(* handleMessageCreate (messageCreate.handler.ts): the three declarations  *)
(* of the file, at its lines 18, 280 and 490                               *)
(***************************************************************************)

\* the declarations of handleMessageCreate
Handlers == {"L18", "L280", "L490"}

\* config.BOT_OWNER_ID
BOT_OWNER_ID == "u1"

\* a message: its author, its channel, whether the author is a bot, whether
\* it mentions the bot or starts with the prefix, and what it says once the
\* mention or the prefix is taken off, a command with its argument or free text
Message(author, channel, bot, addressed, command, arg) ==
    [author |-> author, channel |-> channel, bot |-> bot, addressed |-> addressed,
     command |-> command, arg |-> arg]

\* the messages the gateway may deliver
Inbound ==
    {Message(u, c, FALSE, TRUE, command, "") :
         u \in Users, c \in Channels, command \in {"hello", "reset"}}
    \cup {Message(u, "c1", FALSE, FALSE, "hello", "") : u \in Users}
    \cup {Message("u2", "c1", TRUE, TRUE, "hello", "")}
    \cup {Message("u1", "c1", FALSE, TRUE, "remember", "city=Paris"),
          Message("u2", "c1", FALSE, TRUE, "remember", "city=Oslo")}
    \cup {Message(u, "c1", FALSE, TRUE, c[1], c[2]) :
              u \in Users,
              c \in {<<"forget", "city">>, <<"maintenance", "on">>, <<"maintenance", "off">>}}

\* what the awaited calls of one run of the handler may do: all succeed, the
\* db.write() rejects, the first message.reply rejects, or every one does
Faults == {"none", "write", "reply", "discord"}

\* the replies of the handlers
SuccessReply == "done"
OwnerOnlyReply == "This is an owner-only command."
NotInMemoryReply == "I don't have that in my memory."
CriticalErrorReply == "A critical error occurred while running that command."
QueryErrorReply == "I ran into an error trying to generate a response."

\* the branch of the handler a message is handled in: what is done before the
\* first await (histories, db.data.userProfiles, botState.isMaintenance),
\* whether db.write() is awaited, and the reply that comes last; a branch that
\* goes on to processGeminiQuery has no reply of its own
commandBranch(handler, msg, ready, histories, profiles, maintenance) ==
    LET same == [histories |-> histories, userProfiles |-> profiles, isMaintenance |-> maintenance,
                 writes |-> FALSE, reply |-> SuccessReply, query |-> FALSE]
        g == getProfile(ready, profiles, msg.author)
        customMemory == g.profile.customMemory
    IN  CASE msg.command = "maintenance" /\ handler = "L490" ->
                 IF msg.author # BOT_OWNER_ID THEN [same EXCEPT !.reply = OwnerOnlyReply]
                 ELSE [same EXCEPT !.isMaintenance = (msg.arg = "on")]
          [] msg.command = "reset" ->
                 [same EXCEPT !.histories = clearHistory(histories, msg.channel)]
          [] msg.command = "remember" ->
                 LET parts == Split(msg.arg, "=")
                     s == setProfileData(ready, g.userProfiles, msg.author,
                                         [customMemory |-> MapSet(customMemory, parts[1], parts[2])])
                 IN  [same EXCEPT !.userProfiles = s.userProfiles, !.writes = s.wrote]
          [] msg.command = "forget" ->
                 IF Truthy(customMemory, msg.arg)
                 THEN LET deleted == MapDelete(customMemory, msg.arg)
                          s == setProfileData(
                                   ready,
                                   InPlace(ready, profiles, msg.author, g, "customMemory", deleted),
                                   msg.author, [customMemory |-> deleted])
                      IN  [same EXCEPT !.userProfiles = s.userProfiles, !.writes = s.wrote]
                 ELSE [same EXCEPT !.userProfiles = g.userProfiles, !.reply = NotInMemoryReply]
          [] OTHER -> [same EXCEPT !.query = TRUE]

\* the message.reply calls of one run of the handler under a fault: chain
\* holds the reply of the branch and after it the replies of the catch blocks
\* an exception on the way passes through; the first reply that is accepted
\* is the last one tried, and a run in which none is accepted ends rejected
replyChain(chain, fault) ==
    LET accepted == CASE fault = "discord" -> 0
                      [] fault = "reply" -> IF Len(chain) >= 2 THEN 2 ELSE 0
                      [] OTHER -> IF Len(chain) >= 1 THEN 1 ELSE 0
    IN  [replies |-> IF accepted = 0 THEN <<>> ELSE <<chain[accepted]>>,
         threw |-> accepted # 1,
         settled |-> IF accepted = 0 THEN "rejected" ELSE "resolved"]

\* the replies of the catch blocks around a step: the one of processGeminiQuery
\* (inQuery) and the one of the command router, which line 280 alone has
catchReplies(handler, inQuery) ==
    (IF inQuery THEN <<QueryErrorReply>> ELSE <<>>)
    \o (IF handler = "L280" THEN <<CriticalErrorReply>> ELSE <<>>)

\* message.id values, and the order the messages are written in
MessageIds == {"m1", "m2"}
IdBefore(a, b) == a = "m1" /\ b = "m2"

\* the key of processedMessages: `${message.id}-${message.author.id}`
messageKey(msg) == msg.id \o "-" \o msg.author

\* plausible bug: the key is added to the set but no timer is started for it
deduplicateNoTimer(processed, scheduled, key) ==
    IF key \in processed
    THEN [duplicate |-> TRUE, processedMessages |-> processed, timers |-> scheduled]
    ELSE [duplicate |-> FALSE, processedMessages |-> processed \cup {key},
          timers |-> scheduled]

\* handleMessageCreate at line 18, its lines 27 to 38: the test of
\* processedMessages, the add and the setTimeout
deduplicate(processed, scheduled, key) ==
    IF key \in processed
    THEN [duplicate |-> TRUE, processedMessages |-> processed, timers |-> scheduled]
    ELSE [duplicate |-> FALSE, processedMessages |-> processed \cup {key},
          timers |-> scheduled \cup {key}]

\* plausible bug: in maintenance mode the owner is ignored as everyone is
maintenanceGuardOwnerToo(maintenance, author) == maintenance

\* the maintenance guard of the handlers at lines 280 and 490: whether the
\* message is dropped
maintenanceGuard(maintenance, author) == maintenance /\ author # BOT_OWNER_ID

\* no message has been delivered
NoEvent ==
    [kind |-> "none", msg |-> <<>>, reached |-> FALSE, duplicate |-> FALSE, threw |-> FALSE,
     replies |-> <<>>, settled |-> "none"]

\* handleMessageCreate(message) up to its end, or up to the await of
\* generateResponse in processGeminiQuery
Handle(msg, delivery, fault) ==
    LET d == IF handlerBuild = "L18"
             THEN deduplicate(processedMessages, timers, messageKey(msg))
             ELSE [duplicate |-> FALSE, processedMessages |-> processedMessages,
                   timers |-> timers]
        silenced == handlerBuild # "L18" /\ maintenanceGuard(isMaintenance, msg.author)
        reached == ~msg.bot /\ ~d.duplicate /\ ~silenced /\ msg.addressed
        b == commandBranch(handlerBuild, msg, dbReady, conversationHistories, userProfiles,
                           isMaintenance)
        failedWrite == b.writes /\ fault = "write"
        r == replyChain((IF failedWrite THEN <<>> ELSE <<b.reply>>)
                            \o catchReplies(handlerBuild, FALSE),
                        IF failedWrite THEN "none" ELSE fault)
        g == getProfile(dbReady, userProfiles, msg.author)
        done == [kind |-> "deliver", msg |-> msg, reached |-> reached, duplicate |-> d.duplicate,
                 threw |-> FALSE, replies |-> <<>>, settled |-> "resolved"]
    IN  /\ processedMessages' = IF msg.bot THEN processedMessages ELSE d.processedMessages
        /\ timers' = IF msg.bot THEN timers ELSE d.timers
        /\ IF ~reached
           THEN /\ event' = done
                /\ UNCHANGED <<conversationHistories, userProfiles, storage, isMaintenance, pending>>
           ELSE IF b.query
           THEN /\ userProfiles' = g.userProfiles
                /\ pending' = pending \cup
                       {[msg |-> msg, delivery |-> delivery,
                         history |-> getHistory(conversationHistories, msg.channel).returned,
                         userProfile |-> g.profile,
                         systemInstruction |-> systemInstructionL153(g.profile),
                         turns |-> chatL772(
                                       msg.command, g.profile,
                                       getHistory(conversationHistories, msg.channel).returned).turns]}
                /\ event' = [done EXCEPT !.settled = "pending"]
                /\ UNCHANGED <<conversationHistories, storage, isMaintenance>>
           ELSE /\ conversationHistories' = b.histories
                /\ userProfiles' = b.userProfiles
                /\ isMaintenance' = b.isMaintenance
                /\ storage' = IF b.writes /\ ~failedWrite THEN b.userProfiles ELSE storage
                /\ event' = [done EXCEPT !.threw = failedWrite \/ r.threw,
                                         !.replies = r.replies, !.settled = r.settled]
                /\ UNCHANGED pending
        /\ appended' = [c \in Channels |->
                           IF MapHas(conversationHistories', c) THEN appended[c] ELSE <<>>]
        /\ UNCHANGED <<appendCount, historyCall, dbReady, writer, profileCall, profileReturn,
                       profileCalls, handlerBuild, routerVars, exchangeVars, extractVars,
                       startupVars>>

\* a message is delivered for the first time; the handler at line 490 alone
\* has a maintenance command, and to the others a message that starts with
\* the word is free text as "hello" is
Deliver(id, inbound, fault) ==
    /\ id \notin DOMAIN messages
    /\ inbound.command = "maintenance" => handlerBuild = "L490"
    /\ \A earlier \in MessageIds : IdBefore(earlier, id) => earlier \in DOMAIN messages
    /\ messages' = MapSet(messages, id, [id |-> id] @@ inbound)
    /\ Handle(messages'[id], 1, fault)
    /\ UNCHANGED redelivered

\* the gateway delivers a message once more; the handlers at lines 280 and 490
\* never read message.id, and a message delivered again is one more message
\* to them
Redeliver(id, fault) ==
    /\ handlerBuild = "L18"
    /\ id \in DOMAIN messages
    /\ id \notin redelivered
    /\ redelivered' = redelivered \cup {id}
    /\ Handle(messages[id], 2, fault)
    /\ UNCHANGED messages

\* the generateResponse call a handler awaits returns a text or throws, and
\* processGeminiQuery runs to its end
Complete(id, delivery, text, fault) ==
    \E p \in pending :
    /\ p.msg.id = id
    /\ p.delivery = delivery
    /\ pending' = pending \ {p}
    /\ LET r == replyChain((IF text = "" THEN <<>> ELSE <<text>>)
                               \o catchReplies(handlerBuild, TRUE),
                           fault)
       IN  /\ conversationHistories' =
                  IF text = "" THEN conversationHistories
                  ELSE appendExchange(conversationHistories, p.msg.channel, p.msg.command, text)
           /\ appended' =
                  IF text = "" THEN appended
                  ELSE [appended EXCEPT
                           ![p.msg.channel] =
                               @ \o <<Content("user", p.msg.command), Content("model", text)>>]
           /\ appendCount' =
                  IF text = "" THEN appendCount
                  ELSE [appendCount EXCEPT ![p.msg.channel] = @ + 2]
           /\ event' = [kind |-> "complete", msg |-> p.msg, reached |-> TRUE, duplicate |-> FALSE,
                        threw |-> text = "" \/ r.threw, replies |-> r.replies,
                        settled |-> r.settled]
    /\ UNCHANGED <<historyCall, profileVars, isMaintenance, processedMessages, timers, messages,
                   redelivered, handlerBuild, routerVars, exchangeVars, extractVars, startupVars>>

\* the timer of a key fires: processedMessages.delete(messageKey)
TimerFires(key) ==
    /\ key \in timers
    /\ timers' = timers \ {key}
    /\ processedMessages' = processedMessages \ {key}
    /\ event' = [NoEvent EXCEPT !.kind = "timer"]
    /\ UNCHANGED <<historyVars, profileVars, isMaintenance, pending, messages, redelivered,
                   handlerBuild, routerVars, exchangeVars, extractVars, startupVars>>

\* the profiles the store holds when the handler starts: one user has a
\* memory and the other has no profile yet
HandlerDocuments ==
    {[u1 |-> [memoryEnabled |-> TRUE, customMemory |-> [city |-> "Rome"],
              automaticMemory |-> [city |-> "Turin"]]]}

\* the texts the awaited generateResponse may return; "" stands for a call
\* that throws
ResponseTexts == {"", "Hi there!"}

\* the values of messageKey
MessageKeys == {id \o "-" \o author : id \in MessageIds, author \in Users}

\* no handler has run
HandlerIdle ==
    /\ handlerBuild = "L18"
    /\ isMaintenance = FALSE
    /\ processedMessages = {}
    /\ timers = {}
    /\ messages = <<>>
    /\ redelivered = {}
    /\ pending = {}
    /\ event = NoEvent

\* the builds of the handler, after the ready event
HandlerInit ==
    /\ handlerBuild \in Handlers
    /\ isMaintenance = FALSE
    /\ processedMessages = {}
    /\ timers = {}
    /\ messages = <<>>
    /\ redelivered = {}
    /\ pending = {}
    /\ event = NoEvent

\* the history buffer when the handler is looked at: empty, or a full list
\* under c1
HandlerHistoryInit ==
    /\ conversationHistories \in {<<>>, [c1 |-> PriorTurns(HistoryLimit)]}
    /\ appended = [c \in Channels |->
                      IF MapHas(conversationHistories, c) THEN conversationHistories[c] ELSE <<>>]
    /\ appendCount = [c \in Channels |-> Len(appended[c])]
    /\ historyCall = [op |-> "none", channelId |-> "none", returned |-> <<>>, evicted |-> 0]

\* the profile store after the ready event
HandlerProfileInit ==
    /\ storage \in HandlerDocuments
    /\ dbReady = TRUE
    /\ userProfiles = storage
    /\ writer = <<>>
    /\ profileCall = NoCall
    /\ profileReturn = <<>>
    /\ profileCalls = 0

(***************************************************************************)
(* The serverless entry point (part_009, index.ts)                         *)
(***************************************************************************)

\* the invocations of the exported handler
Invocations == {"i1", "i2", "i3"}

\* no invocation is looked at
StartupIdle ==
    /\ environment = TRUE
    /\ isBotInitialized = FALSE
    /\ connected = FALSE
    /\ listeners = 0
    /\ invocations = [i \in Invocations |-> "none"]
    /\ handlerRuns = 0

\* the module is loaded and no request has come in
StartupInit ==
    /\ environment \in BOOLEAN
    /\ isBotInitialized = FALSE
    /\ connected = FALSE
    /\ listeners = 0
    /\ invocations = [i \in Invocations |-> "waiting"]
    /\ handlerRuns = 0

\* handler(req, res) up to its first await or to its response: the test of
\* isBotInitialized, the test of the environment, and the registration of
\* the listeners
setup(initialized, env, registered) ==
    CASE initialized -> [at |-> "responded", listeners |-> registered]
      [] ~env -> [at |-> "refused", listeners |-> registered]
      [] OTHER -> [at |-> "login", listeners |-> registered + 1]

\* a request comes in: handler(req, res) runs to its response or to the await
\* of client.login
Invoke(i) ==
    /\ invocations[i] = "waiting"
    /\ LET s == setup(isBotInitialized, environment, listeners)
       IN  /\ invocations' = [invocations EXCEPT ![i] = s.at]
           /\ listeners' = s.listeners
    /\ UNCHANGED <<environment, isBotInitialized, connected, handlerRuns, historyVars,
                   profileVars, routerVars, exchangeVars, extractVars, handlerVars>>

\* client.login resolves: the flag is set and the request is answered
LoginResolves(i) ==
    /\ invocations[i] = "login"
    /\ isBotInitialized' = TRUE
    /\ connected' = TRUE
    /\ invocations' = [invocations EXCEPT ![i] = "responded"]
    /\ UNCHANGED <<environment, listeners, handlerRuns, historyVars, profileVars, routerVars,
                   exchangeVars, extractVars, handlerVars>>

\* client.login rejects: the invocation ends with the flag as it was
LoginRejects(i) ==
    /\ invocations[i] = "login"
    /\ invocations' = [invocations EXCEPT ![i] = "rejected"]
    /\ UNCHANGED <<environment, isBotInitialized, connected, listeners, handlerRuns, historyVars,
                   profileVars, routerVars, exchangeVars, extractVars, handlerVars>>

\* the client emits messageCreate: every registered listener runs
MessageCreate ==
    /\ connected
    /\ handlerRuns' = listeners
    /\ UNCHANGED <<environment, isBotInitialized, connected, listeners, invocations, historyVars,
                   profileVars, routerVars, exchangeVars, extractVars, handlerVars>>

\* the call of extractMemoryFromConversation
ExtractMemory ==
    /\ extraction.pc = "called"
    /\ extraction' =
           [extraction EXCEPT
               !.pc = "returned",
               !.result = extractMemoryFromConversation(extraction.decl, extraction.outcome)]
    /\ UNCHANGED <<historyVars, profileVars, routerVars, exchangeVars, handlerVars, startupVars>>

Init == HistoryInit /\ ProfileInit /\ RouterIdle /\ ExchangeIdle /\ ExtractIdle /\ HandlerIdle /\ StartupIdle

\* the state in which the router is given a message
InitRouter == HistoryInit /\ ProfileInit /\ RouterInit /\ ExchangeIdle /\ ExtractIdle /\ HandlerIdle /\ StartupIdle

\* the state in which a build starts
InitExchange ==
    ExchangeHistoryInit /\ ExchangeProfileInit /\ RouterIdle /\ ExchangeInit /\ ExtractIdle
    /\ HandlerIdle /\ StartupIdle

\* the state in which a declaration of extractMemoryFromConversation is called
InitExtract == HistoryInit /\ ProfileInit /\ RouterIdle /\ ExchangeIdle /\ ExtractInit /\ HandlerIdle /\ StartupIdle

HistoryNext ==
    \E c \in Channels :
        \/ AddMessageToHistory(c)
        \/ GetHistory(c)
        \/ ClearHistory(c)

ProfileNext ==
    \/ InitializeUserProfileDB
    \/ \E call \in ProfileCalls : ProfileCall(call)
    \/ WriteComplete

SpecHistory == Init /\ [][HistoryNext]_vars

SpecProfile == Init /\ [][ProfileNext]_vars

RouterNext == RouteQuery

SpecRouter == InitRouter /\ [][RouterNext]_vars

ExchangeNext ==
    \/ \E c \in Channels, u \in Users, q \in ExchangeQueries : StartExchange(c, u, q)
    \/ \E outcome \in ProviderOutcomes : ProviderResponds(outcome)
    \/ \E c \in Channels : ResetArrives(c)

SpecExchange == InitExchange /\ [][ExchangeNext]_vars

ExtractNext == ExtractMemory

SpecExtract == InitExtract /\ [][ExtractNext]_vars

\* the handler of a build, after the ready event, with the histories and the
\* profiles earlier messages left
InitHandler ==
    /\ HandlerHistoryInit /\ HandlerProfileInit /\ RouterIdle /\ ExchangeIdle /\ ExtractIdle
    /\ HandlerInit /\ StartupIdle

HandlerNext ==
    \/ \E id \in MessageIds, inbound \in Inbound, fault \in Faults : Deliver(id, inbound, fault)
    \/ \E id \in MessageIds, fault \in Faults : Redeliver(id, fault)
    \/ \E id \in MessageIds, delivery \in {1, 2}, text \in ResponseTexts, fault \in Faults :
           Complete(id, delivery, text, fault)
    \/ \E key \in MessageKeys : TimerFires(key)

SpecHandler == InitHandler /\ [][HandlerNext]_vars

\* the entry point when the module is loaded
InitStartup ==
    /\ HistoryInit /\ ProfileInit /\ RouterIdle /\ ExchangeIdle /\ ExtractIdle /\ HandlerIdle
    /\ StartupInit

StartupNext ==
    \/ \E i \in Invocations : Invoke(i)
    \/ \E i \in Invocations : LoginResolves(i)
    \/ \E i \in Invocations : LoginRejects(i)
    \/ MessageCreate

SpecStartup == InitStartup /\ [][StartupNext]_vars

(***************************************************************************)
(* Claims about the profile store                                          *)
(***************************************************************************)

\* the memory map a user's stored record holds under a field ({} when the
\* record or the field is missing)
MemoryOf(profiles, userId, field) ==
    IF userId \in DOMAIN profiles /\ field \in DOMAIN profiles[userId]
    THEN profiles[userId][field] ELSE <<>>

\* this step starts the call (and ends it, when the call does not write)
Starts(call) ==
    profileCalls' = profileCalls + 1 /\ profileCall'.op = call.op /\ profileCall'.call = call

\* this step neither writes the file nor queues a write
NoWrite == storage' = storage /\ Waiting(writer') = Waiting(writer)

C6_RemoveMemory ==
    [][\A call \in ProfileCalls :
        (/\ Starts(call)
         /\ call.op = "removeMemory"
         /\ call.key \notin ObjectPrototypeKeys
         /\ dbReady) =>
            LET inCustom == call.key \in DOMAIN MemoryOf(userProfiles, call.userId, "customMemory")
                inAutomatic == call.key \in DOMAIN MemoryOf(userProfiles, call.userId, "automaticMemory")
                after == getProfile(dbReady', userProfiles', call.userId).profile
            IN IF inCustom \/ inAutomatic
               THEN /\ profileCall'.result = TRUE
                    /\ call.key \notin DOMAIN after.customMemory
                    /\ call.key \notin DOMAIN after.automaticMemory
               ELSE /\ profileCall'.result = FALSE
                    /\ MemoryOf(userProfiles', call.userId, "customMemory")
                           = MemoryOf(userProfiles, call.userId, "customMemory")
                    /\ MemoryOf(userProfiles', call.userId, "automaticMemory")
                           = MemoryOf(userProfiles, call.userId, "automaticMemory")
                    /\ NoWrite]_vars

\* C7: getProfile on a user with no stored record returns the default profile,
\* adds no record to the in-memory document and writes nothing to storage.
C7_GetProfileUnseenUser ==
    [][\A call \in ProfileCalls :
        (/\ Starts(call)
         /\ call.op = "getProfile"
         /\ ~Stored(dbReady, userProfiles, call.userId)) =>
            /\ profileCall'.result
                   = [memoryEnabled |-> TRUE, customMemory |-> <<>>, automaticMemory |-> <<>>]
            /\ userProfiles' = userProfiles
            /\ storage' = storage
            /\ writer' = writer
            /\ ~profileCall'.threw]_vars

\* getProfile has answered for a user the loaded document has no record of
C7_Witness ==
    /\ profileCall.op = "getProfile"
    /\ dbReady
    /\ profileCall.call.userId \notin DOMAIN userProfiles
    /\ userProfiles # <<>>
    /\ profileCall.result = DefaultProfile

\* C8 as stated: with no database (initializeUserProfileDB never called),
\* getProfile returns the default profile and no call throws or changes the
\* in-memory document, the storage or the writer.
C8_NoDatabaseNoThrow ==
    [][\A call \in ProfileCalls :
        (Starts(call) /\ ~dbReady) =>
            /\ ~profileCall'.threw
            /\ (call.op = "getProfile" =>
                    profileCall'.result
                        = [memoryEnabled |-> TRUE, customMemory |-> <<>>, automaticMemory |-> <<>>])
            /\ userProfiles' = userProfiles
            /\ storage' = storage
            /\ writer' = writer]_vars

\* a returned call that changes the stored document when it runs
Mutating(r) ==
    /\ r.ready
    /\ \/ r.op \in {"setProfileData", "addCustomMemory"}
       \/ r.op = "addAutomaticMemory" /\ r.result # "ignored"
       \/ r.op = "removeMemory" /\ r.result = TRUE /\ r.owned
       \/ r.op = "clearProfileData" /\ r.stored

Min(a, b) == IF a < b THEN a ELSE b

\* the last n entries of a list
LastN(list, n) == SubSeq(list, Len(list) - n + 1, Len(list))

Range(list) == {list[i] : i \in 1..Len(list)}

\* the list a channel held before an addMessageToHistory step, with the new turn pushed
PushedList(c) ==
    Append(getHistory(conversationHistories, c).returned, appended'[c][Len(appended'[c])])

C2_EvictsEvenNumber ==
    (historyCall.op = "add" /\ historyCall.evicted > 0) =>
        /\ historyCall.evicted % 2 = 0
        /\ conversationHistories[historyCall.channelId][1].role # "model"

\* C2 as amended: an addMessageToHistory call that evicts removes exactly one
\* entry, the oldest, from the front of the key's list (the list it leaves is
\* the pushed list without its first entry); a call on a list that is not full
\* removes nothing. After an evicting call that appended a user turn the list
\* starts with a model turn whose user turn is gone.
C2_EvictsOneFromFront ==
    /\ [][\A c \in Channels :
            (historyCall'.op = "add" /\ historyCall'.channelId = c) =>
                IF Len(PushedList(c)) > 2 * MAX_HISTORY_MESSAGES
                THEN /\ conversationHistories'[c] = Tail(PushedList(c))
                     /\ historyCall'.evicted = 1
                ELSE /\ conversationHistories'[c] = PushedList(c)
                     /\ historyCall'.evicted = 0]_vars
    /\ []((historyCall.op = "add" /\ historyCall.evicted > 0) =>
            LET list == conversationHistories[historyCall.channelId]
            IN list[Len(list)].role = "user" => list[1].role = "model")

\* an evicting call has left a model turn at the head of the list
C2_Witness ==
    /\ historyCall.op = "add"
    /\ historyCall.evicted = 1
    /\ conversationHistories[historyCall.channelId][1].role = "model"

\* C3: after clearHistory(key) the key is not in the map and getHistory(key)
\* returns the empty list; an addMessageToHistory on an absent key leaves a
\* list holding the new turn alone; and a list never holds a turn appended
\* before the key's last clear.
C3_ClearRemovesKey ==
    /\ [](historyCall.op = "clear" =>
            /\ ~MapHas(conversationHistories, historyCall.channelId)
            /\ getHistory(conversationHistories, historyCall.channelId).returned = <<>>)
    /\ [][\A c \in Channels :
            (historyCall'.op = "add" /\ historyCall'.channelId = c
                /\ ~MapHas(conversationHistories, c)) =>
                conversationHistories'[c] = <<Content(NextRole(c), NextText(c))>>]_vars
    /\ [](\A c \in DOMAIN conversationHistories :
            Range(conversationHistories[c]) \subseteq Range(appended[c]))

\* the first append after a clear, under a key that had stored and evicted turns
C3_Witness ==
    \E c \in DOMAIN conversationHistories :
        /\ historyCall.op = "add" /\ historyCall.channelId = c
        /\ appendCount[c] > 2 * MAX_HISTORY_MESSAGES + 1
        /\ Len(appended[c]) = 1
        /\ conversationHistories[c] = appended[c]

ContainsUrl(s) ==
    \E scheme \in {"http://", "https://"} : \E i \in 1..Len(s) :
        /\ Substring(s, i, i + Len(scheme) - 1) = scheme
        /\ Len(s) >= i + Len(scheme)
        /\ Char(s, i + Len(scheme)) \notin Whitespace

\* C10: getModelForQuery returns pro for every query that contains an
\* http(s) URL, whatever its length and whatever keywords it contains; the
\* claim is about the exported getModelForQuery and about the one declared
\* at line 73.
C10_UrlIsPro ==
    (routed.done /\ ContainsUrl(routed.query)) =>
        (routed.exported = "pro" /\ routed.l73 = "pro")

\* The exported getModelForQuery returns pro for every query that contains
\* an http(s) URL.
ExportedUrlIsPro ==
    (routed.done /\ ContainsUrl(routed.query)) => routed.exported = "pro"

\* a query with a URL and nothing else has been routed
UrlAloneRouted ==
    routed.done /\ routed.query = "https://example.com"

\* C11: getModelForQuery returns pro for every query longer than the length
\* threshold (150 in both declarations the claim is about), also when the
\* query holds no URL, no keyword and no question word; the claim is about
\* the getModelForQuery of gemini.service.ts and about the one of part_017.
C11_LongIsPro ==
    (routed.done /\ Len(routed.query) > 150) =>
        (routed.exported = "pro" /\ routed.part017 = "pro")

\* The getModelForQuery exported by gemini.service.ts returns pro for every
\* query longer than 150.
ExportedLongIsPro ==
    (routed.done /\ Len(routed.query) > 150) => routed.exported = "pro"

\* a long query with no URL, no keyword and no question word has been routed
LongAloneRouted ==
    routed.done /\ routed.query = Repeat("x", 151) \o Repeat("x", 151)

(***************************************************************************)
(* Claims about a free-text exchange (SpecExchange)                        *)
(***************************************************************************)

\* whether no two turns next to each other in a list have the same role
RolesAlternate(turns) ==
    \A i \in 1..(Len(turns) - 1) : turns[i].role # turns[i + 1].role

\* C12: for every stored history, every profile and every query, the turns
\* generateResponse of part_017 puts together for the provider (persona turn,
\* history turns, the memory pair if any, the new query) have no two turns
\* with the same role next to each other.
\* Violated: config.SYSTEM_PROMPT is a user-role turn, and with an empty
\* history the user-role query comes right after it.
C12_NoTwoConsecutiveSameRole ==
    (service = "part017" /\ exchange.pc # "idle") => RolesAlternate(exchange.turns)

\* the manual and the automatic memories of a profile in one map, the manual
\* value under a key both have
MergedMemory(userProfile) ==
    [k \in DOMAIN userProfile.customMemory \cup DOMAIN userProfile.automaticMemory |->
        IF k \in DOMAIN userProfile.customMemory
        THEN userProfile.customMemory[k]
        ELSE userProfile.automaticMemory[k]]

\* whether a turn is a user-role turn whose text has every memory of the map
\* as a member "key": "value"
SerializesMemory(turn, memory) ==
    /\ turn.role = "user"
    /\ \A k \in DOMAIN memory :
           Includes(turn.text, "\"" \o k \o "\": \"" \o memory[k] \o "\"")

\* C13: when memoryEnabled is true and either memory map is non-empty,
\* generateResponse of gemini.service.ts line 772 adds, between the history
\* turns and the query, exactly one user-role turn that serializes the merge
\* of the manual and automatic memories (manual value on a shared key) and
\* right after it one model-role acknowledgement; when memoryEnabled is false
\* or both maps are empty it adds neither.
\* Violated: only automaticMemory is tested and serialized; manual {city: Rome}
\* with automatic {city: Turin, job: chef} gives "city": "Turin", and a manual
\* memory alone gives no pair.
C13_MemoryPairIsMergedManualWins ==
    (service = "L772" /\ exchange.pc # "idle") =>
        LET p == exchange.userProfile
            merged == MergedMemory(p)
            before == 1 + Len(exchange.given)
            added == Len(exchange.turns) - before - 1
        IN  /\ SubSeq(exchange.turns, 1, before) = <<SYSTEM_PROMPT>> \o exchange.given
            /\ exchange.turns[Len(exchange.turns)] = Content("user", exchange.query)
            /\ IF p.memoryEnabled /\ DOMAIN merged # {}
               THEN /\ added = 2
                    /\ SerializesMemory(exchange.turns[before + 1], merged)
                    /\ exchange.turns[before + 2].role = "model"
               ELSE added = 0

\* C14: the persona turn and the memory pair are call-scoped: generateResponse
\* of part_013 leaves the list it was passed as it was, and a channel's stored
\* history is at every moment the last turns (at most HistoryLimit) of those
\* the handler appended under the key, user queries and model replies.
C14_AssemblyIsCallScoped ==
    service = "part013" =>
        /\ exchange.pc # "idle" => exchange.left = exchange.given
        /\ \A c \in DOMAIN conversationHistories :
               /\ Len(conversationHistories[c]) = Min(Len(appended[c]), HistoryLimit)
               /\ conversationHistories[c] = LastN(appended[c], Len(conversationHistories[c]))

\* C14, witness: an exchange of part_013 for a profile with automatic memories
\* on a channel that held two turns has returned, and the channel holds those
\* two turns, the query and the reply
C14_Witness ==
    /\ service = "part013"
    /\ exchange.pc = "replied"
    /\ exchange.result = "return"
    /\ HasProfileContext(exchange.userProfile)
    /\ Len(exchange.turns) = Len(exchange.given) + 4
    /\ exchange.held
    /\ Len(exchange.given) = 2
    /\ MapHas(conversationHistories, exchange.channelId)
    /\ conversationHistories[exchange.channelId] =
           exchange.given \o <<Content("user", exchange.query), Content("model", exchange.returned)>>

\* the step in which generateResponse returns text to processGeminiQuery
CompletionReturns ==
    /\ exchange.pc = "calling"
    /\ exchange'.pc = "replied"
    /\ exchange'.result = "return"

\* C15: the step in which the completion call returns text appends two turns
\* to the channel's list, ("user", query) and then ("model", reply text), the
\* list being cut back to its last HistoryLimit turns; from an empty or absent
\* list the length becomes 2; and no other step of the exchange (its start, a
\* further provider call, a thrown error) changes any stored history.
C15_AppendsQueryThenReplyAfterReturn ==
    [][/\ CompletionReturns =>
            LET c == exchange.channelId
                old == IF MapHas(conversationHistories, c) THEN conversationHistories[c] ELSE <<>>
                pushed == old \o <<Content("user", exchange.query),
                                   Content("model", exchange'.returned)>>
            IN  /\ MapHas(conversationHistories', c)
                /\ conversationHistories'[c] = LastN(pushed, Min(Len(pushed), HistoryLimit))
                /\ old = <<>> => Len(conversationHistories'[c]) = 2
                /\ \A d \in DOMAIN conversationHistories \ {c} :
                       /\ MapHas(conversationHistories', d)
                       /\ conversationHistories'[d] = conversationHistories[d]
       /\ (exchange' # exchange /\ ~CompletionReturns) =>
              conversationHistories' = conversationHistories]_vars

\* C15, witness: the query "hello" on a channel with no history has been
\* answered with text, and the channel holds the query and then the reply
C15_Witness ==
    /\ exchange.pc = "replied"
    /\ exchange.result = "return"
    /\ exchange.query = "hello"
    /\ exchange.given = <<>>
    /\ exchange.returned = "Hi there!"
    /\ MapHas(conversationHistories, exchange.channelId)
    /\ conversationHistories[exchange.channelId] =
           <<Content("user", "hello"), Content("model", "Hi there!")>>

\* whether a text is empty or white space only
IsBlank(text) == Len(Trim(text)) = 0

\* C16: generateResponse (gemini.service.ts line 772, part_017, and
\* gemini.service.ts line 153) never returns an empty or whitespace-only
\* string: when the text of the provider response is empty or white space
\* only, it returns the could-not-generate-a-response message.
\* Violated: gemini.service.ts line 772 returns result.response.text() as it
\* is, and part_017 returns the trimmed text, "" for a blank one.
C16_NeverReturnsBlank ==
    (service \in {"L772", "part017", "L153"} /\ exchange.result = "return") =>
        /\ ~IsBlank(exchange.returned)
        /\ IsBlank(exchange.outcomes[Len(exchange.outcomes)].text)
           /\ exchange.outcomes[Len(exchange.outcomes)].kind = "text"
               => exchange.returned = CouldNotGenerate

\* the part of C16 that holds: without a tool call, generateResponse of
\* gemini.service.ts line 153 answers a blank stream with the canned message
L153BlankStreamIsCanned ==
    (service = "L153" /\ exchange.result = "return" /\ Len(exchange.outcomes) = 1) =>
        /\ ~IsBlank(exchange.returned)
        /\ IsBlank(exchange.outcomes[1].text) /\ exchange.outcomes[1].kind = "text"
               => exchange.returned = CouldNotGenerate

\* a blank stream has been answered by gemini.service.ts line 153
L153BlankStreamAnswered ==
    /\ service = "L153"
    /\ exchange.result = "return"
    /\ Len(exchange.outcomes) = 1
    /\ exchange.outcomes[1].kind = "text"
    /\ exchange.outcomes[1].text = "  \n"

\* the first provider reply of the exchange is a text longer than
\* MAX_RESPONSE_LENGTH
FirstReplyTooLong ==
    /\ Len(exchange.outcomes) >= 1
    /\ exchange.outcomes[1].kind = "text"
    /\ Len(exchange.outcomes[1].text) > MAX_RESPONSE_LENGTH

\* C17: when the provider's reply is longer than MAX_RESPONSE_LENGTH,
\* generateResponse of part_011 goes on to the summarize call, and the text it
\* returns after it is at most MAX_RESPONSE_LENGTH long, whether the summary
\* fits, the summary is too long and is cut, or the summarize call fails and
\* the reply itself is cut.
C17_LongReplyReturnsAtMostLimit ==
    (service = "part011" /\ FirstReplyTooLong) =>
        /\ (exchange.pc = "calling" /\ Len(exchange.outcomes) = 1) =>
               /\ exchange.stage = "summarize"
               /\ Len(exchange.carried) > MAX_RESPONSE_LENGTH
               /\ exchange.carried = SliceTo(exchange.outcomes[1].text, Len(exchange.carried))
        /\ exchange.pc = "replied" =>
               /\ Len(exchange.outcomes) = 2
               /\ exchange.result = "return"
               /\ Len(exchange.returned) <= MAX_RESPONSE_LENGTH

\* C17, witness: a reply of 5000 characters was summarized, the summary was
\* itself too long, and what was returned is the cut summary with its mark
C17_Witness ==
    /\ service = "part011"
    /\ exchange.pc = "replied"
    /\ Len(exchange.outcomes) = 2
    /\ Len(exchange.outcomes[1].text) = 5000
    /\ exchange.outcomes[2].kind = "text"
    /\ Len(exchange.outcomes[2].text) > MAX_RESPONSE_LENGTH
    /\ Len(exchange.returned) > MAX_RESPONSE_LENGTH \div 2
    /\ Len(exchange.returned) <= MAX_RESPONSE_LENGTH
    /\ Substring(exchange.returned, Len(exchange.returned) - Len(TruncatedMark) + 1,
                 Len(exchange.returned)) = TruncatedMark

\* the summarize call of a 5000-character reply failed, and what was returned
\* is the cut reply with its mark
LongReplyCutAfterFailedSummary ==
    /\ service = "part011"
    /\ exchange.pc = "replied"
    /\ Len(exchange.outcomes) = 2
    /\ Len(exchange.outcomes[1].text) = 5000
    /\ exchange.outcomes[2].kind = "error"
    /\ Len(exchange.returned) = MAX_RESPONSE_LENGTH - 50 + Len(TruncatedMark)

\* a 5000-character reply was summarized and the summary, which fits, was
\* returned
LongReplySummaryFits ==
    /\ service = "part011"
    /\ exchange.pc = "replied"
    /\ Len(exchange.outcomes) = 2
    /\ Len(exchange.outcomes[1].text) = 5000
    /\ exchange.outcomes[2].kind = "text"
    /\ exchange.returned = "Hi there!"

(***************************************************************************)
(* Claims about extractMemoryFromConversation (SpecExtract)                *)
(***************************************************************************)

\* C18: extractMemoryFromConversation never raises; it returns a record
\* {key, value} exactly when the provider call gave a text that, trimmed,
\* splits on "::" into three parts of which the first, trimmed, is an action
\* token of the declaration and the other two, trimmed, are not empty, the
\* record holding these two; for every other text, and when the provider call
\* fails, it returns null.
C18_ExtractIsStrictAndNeverRaises ==
    extraction.pc = "returned" =>
        LET parts == Split(Trim(extraction.outcome.text), "::")
            matches ==
                /\ extraction.outcome.kind = "text"
                /\ Len(parts) = 3
                /\ Trim(parts[1]) \in ActionTokens(extraction.decl)
                /\ Trim(parts[2]) # ""
                /\ Trim(parts[3]) # ""
        IN  /\ extraction.result # Raised
            /\ IF matches
               THEN extraction.result = Memory(Trim(parts[2]), Trim(parts[3]))
               ELSE extraction.result = NoMemory

\* C18, witness: gemini.service.ts line 703 was given "ADD ::city::Rome" and
\* returned {key: "city", value: "Rome"}
C18_Witness ==
    /\ extraction.pc = "returned"
    /\ extraction.decl = "L703"
    /\ extraction.outcome = [kind |-> "text", text |-> "ADD ::city::Rome"]
    /\ extraction.result = Memory("city", "Rome")

\* an output of four parts that starts as a memory does was answered with null
FourPartsAnsweredNull ==
    /\ extraction.pc = "returned"
    /\ extraction.decl = "part015"
    /\ extraction.outcome = [kind |-> "text", text |-> "SAVE::city::Rome::"]
    /\ extraction.result = NoMemory

\* a failed provider call was answered with null
FailedCallAnsweredNull ==
    /\ extraction.pc = "returned"
    /\ extraction.outcome.kind = "error"
    /\ extraction.result = NoMemory

(***************************************************************************)
(* Claims about a free-text exchange (SpecExchange), continued             *)
(***************************************************************************)

\* the last provider call of the exchange raised an error
LastCallFailed ==
    /\ Len(exchange.outcomes) >= 1
    /\ exchange.outcomes[Len(exchange.outcomes)].kind = "error"

\* C19: whatever error the provider call of generateResponse
\* (gemini.service.ts line 153) raises, quota, safety block, network or
\* another, the reply processGeminiQuery sends for the turn is one of the
\* canned messages and does not contain the text of any provider error.
\* Violated: an error that is not a quota, safety or network one is thrown
\* again by the catch block (line 250), and the handler's catch block replies
\* with "Details: <message>".
C19_ErrorReplyIsCanned ==
    (service = "L153" /\ exchange.pc = "replied" /\ LastCallFailed) =>
        /\ exchange.reply \in {<<HighUsage>>, <<SafetyL153>>, <<NetworkL153>>, <<CouldNotGenerate>>}
        /\ \A m \in ProviderErrors :
               \A i \in 1..Len(exchange.reply) : ~Includes(exchange.reply[i], m)

\* the part of C19 that holds: a quota, safety or network error of the first
\* provider call is answered with the canned message for it
L153KnownErrorIsCanned ==
    (/\ service = "L153"
     /\ exchange.pc = "replied"
     /\ LastCallFailed
     /\ Len(exchange.outcomes) = 1
     /\ exchange.result = "return") =>
        exchange.reply \in {<<HighUsage>>, <<SafetyL153>>, <<NetworkL153>>}

\* a network error has been answered with the canned message
L153NetworkErrorAnswered ==
    /\ service = "L153"
    /\ exchange.pc = "replied"
    /\ LastCallFailed
    /\ exchange.reply = <<NetworkL153>>

\* C20: for one user turn generateResponse (part_015, part_017) makes a
\* single provider completion call: when that call fails the turn has failed,
\* and no second call is made on another model or with another key.
\* Violated: part_017 calls the pro model after the flash model has failed,
\* and part_015 calls the pro model and then the secondary key.
C20_SingleProviderCall ==
    service \in {"part015", "part017"} => Len(exchange.attempts) <= 1

\* what the retries come to in part_015 with a secondary key: four provider
\* calls for one turn, flash and pro on each key
FourCallsForOneTurn ==
    /\ service = "part015"
    /\ exchange.attempts =
           <<[model |-> "flash", key |-> "primary"], [model |-> "pro", key |-> "primary"],
             [model |-> "flash", key |-> "secondary"], [model |-> "pro", key |-> "secondary"]>>

\* the attempts generateResponse of part_015 may make for a turn, in order:
\* the routed model and then pro (if the routed one was flash) on the primary
\* key, and the same on the secondary key if there is one
AttemptChain(modelName, hasSecondaryKey) ==
    LET onKey(k) == IF modelName = "pro"
                    THEN <<[model |-> "pro", key |-> k]>>
                    ELSE <<[model |-> "flash", key |-> k], [model |-> "pro", key |-> k]>>
    IN  onKey("primary") \o (IF hasSecondaryKey THEN onKey("secondary") ELSE <<>>)

\* C21: the attempts of generateResponse of part_015 are, in order, a prefix
\* of (primary key, routed model), (primary key, pro) if the routed model was
\* flash, and the same two with the secondary key if one is configured; an
\* attempt is made only after every earlier one has failed; the text of the
\* first attempt that succeeds is returned and no attempt follows it; and a
\* canned message is returned only once the whole chain has failed.
C21_AttemptsFollowTheChain ==
    (service = "part015" /\ exchange.pc # "idle") =>
        LET chain == AttemptChain(exchange.modelName, secondaryApiKey)
            n == Len(exchange.attempts)
            last == exchange.outcomes[Len(exchange.outcomes)]
        IN  /\ n >= 1 /\ n <= Len(chain)
            /\ exchange.attempts = SubSeq(chain, 1, n)
            /\ Len(exchange.outcomes) = IF exchange.pc = "calling" THEN n - 1 ELSE n
            /\ \A i \in 1..(n - 1) : exchange.outcomes[i].kind = "error"
            /\ exchange.pc = "replied" =>
                   /\ exchange.result = "return"
                   /\ last.kind = "text" => exchange.returned = last.text
                   /\ last.kind = "error" =>
                          /\ n = Len(chain)
                          /\ exchange.returned =
                                 IF secondaryApiKey THEN BothSystemsFailed ELSE ErrorProcessing

\* C21, witness: flash and pro failed on the primary key, flash failed on the
\* secondary key, and pro on the secondary key gave the text that was returned
C21_Witness ==
    /\ service = "part015"
    /\ exchange.pc = "replied"
    /\ Len(exchange.attempts) = 4
    /\ exchange.attempts[4] = [model |-> "pro", key |-> "secondary"]
    /\ exchange.outcomes[4] = [kind |-> "text", text |-> "Hi there!"]
    /\ exchange.returned = "Hi there!"

(***************************************************************************)
(* Claims about the message handler                                        *)
(***************************************************************************)

\* C22: in the handlers with a command router (lines 280 and 490), whenever a
\* step of handling a message that reached the router throws, the run ends
\* with exactly one reply and a resolved promise.
C22_RouterCatchesEveryException ==
    (handlerBuild \in {"L280", "L490"} /\ event.reached /\ event.threw) =>
        /\ event.settled = "resolved"
        /\ Len(event.replies) = 1

\* C22: the handler at line 490 has saved a memory in db.data, the db.write()
\* it awaits has rejected, and the run ended rejected with no reply
L490WriteErrorUnanswered ==
    /\ handlerBuild = "L490"
    /\ event.kind = "deliver" /\ event.msg.command = "remember"
    /\ event.threw /\ event.settled = "rejected" /\ event.replies = <<>>

\* whether the prompt of a run (the system instruction of the declaration of
\* generateResponse at line 153, the turns of the one at line 772) holds a
\* value of the memory
MentionsMemory(run, memory) ==
    \E k \in DOMAIN memory :
        \/ Includes(run.systemInstruction, memory[k])
        \/ \E i \in 1..Len(run.turns) : Includes(run.turns[i].text, memory[k])

\* C23: a step of the handler for a message of user A in channel C leaves the
\* profile of every other user in db.data.userProfiles and the history of
\* every other channel as they were; the prompt a run of processGeminiQuery
\* builds holds the memory of A and no memory of another user; and a reply is
\* appended, with its query, to the list of C whoever the author is.
C23_HistoryByChannelProfileByUser ==
    [][event'.kind \in {"deliver", "complete"} =>
          LET a == event'.msg.author
              c == event'.msg.channel
          IN  /\ \A u \in Users \ {a} :
                     /\ (u \in DOMAIN userProfiles') = (u \in DOMAIN userProfiles)
                     /\ u \in DOMAIN userProfiles => userProfiles'[u] = userProfiles[u]
              /\ \A ch \in Channels \ {c} :
                     /\ MapHas(conversationHistories', ch) = MapHas(conversationHistories, ch)
                     /\ MapHas(conversationHistories, ch) =>
                            conversationHistories'[ch] = conversationHistories[ch]
              /\ \A p \in pending' \ pending :
                     /\ p.msg.author = a
                     /\ p.history = getHistory(conversationHistories, c).returned
                     /\ \A u \in (DOMAIN userProfiles) \ {a} :
                            /\ ~MentionsMemory(p, WithDefaults(userProfiles[u]).customMemory)
                            /\ ~MentionsMemory(p, WithDefaults(userProfiles[u]).automaticMemory)
                     /\ \A k \in DOMAIN p.userProfile.customMemory :
                            Includes(p.systemInstruction, p.userProfile.customMemory[k])
                     /\ \A k \in DOMAIN p.userProfile.automaticMemory :
                            \E i \in 1..Len(p.turns) :
                                Includes(p.turns[i].text, p.userProfile.automaticMemory[k])
                     /\ p.userProfile =
                            WithDefaults(IF a \in DOMAIN userProfiles THEN userProfiles[a] ELSE <<>>)
              /\ (event'.kind = "complete" /\ ~event'.threw) =>
                     /\ MapHas(conversationHistories', c)
                     /\ LastN(conversationHistories'[c], 2) =
                            <<Content("user", event'.msg.command),
                              Content("model", event'.replies[1])>>
      ]_vars

\* C23, witness: u1 has a memory, u1 has asked in c1
\* and been answered, and u2 has just been answered in c1: the list of c1 holds
\* both exchanges, and the profile of u1 is as it was
C23_Witness ==
    /\ event.kind = "complete" /\ ~event.threw
    /\ event.msg.author = "u2" /\ event.msg.channel = "c1"
    /\ "m2" \in DOMAIN messages /\ messages["m1"].author = "u1"
    /\ Len(conversationHistories["c1"]) = 4
    /\ userProfiles["u1"].customMemory = [city |-> "Rome"]
    /\ userProfiles["u1"].automaticMemory = [city |-> "Turin"]

(***************************************************************************)
(* Claims about the exchange, continued                                    *)
(***************************************************************************)

\* the text that carries the persona in the request of the exchange: the
\* system instruction when the declaration sets one, else the first turn
PersonaText ==
    IF exchange.systemInstruction # "" THEN exchange.systemInstruction
    ELSE exchange.turns[1].text

\* C24: in the declarations of generateResponse at lines 153 and 772, a tone
\* or a persona set in the profile is in the persona text of the request, as
\* a line appended to the static prompt; and when neither is set the persona
\* text has no such line.
C24_ToneAndPersonaAreDirectiveLines ==
    (service \in {"L153", "L772"} /\ exchange.pc # "idle") =>
        /\ HasText(exchange.userProfile, "tone") =>
               /\ PersonaText # SYSTEM_PROMPT.text
               /\ Includes(PersonaText, "\n- Adopt a " \o exchange.userProfile.tone \o " tone.")
        /\ HasText(exchange.userProfile, "persona") =>
               /\ PersonaText # SYSTEM_PROMPT.text
               /\ Includes(PersonaText, "\n- Act as a " \o exchange.userProfile.persona \o ".")
        /\ (~HasText(exchange.userProfile, "tone") /\ ~HasText(exchange.userProfile, "persona")) =>
               /\ ~Includes(PersonaText, "\n- Adopt a ")
               /\ ~Includes(PersonaText, "\n- Act as a ")

\* C24: the declaration at line 772 has been given a profile with a tone and
\* has sent the static prompt as it is
L772ToneLeftOut ==
    /\ service = "L772"
    /\ exchange.pc # "idle"
    /\ HasText(exchange.userProfile, "tone")
    /\ exchange.turns[1] = SYSTEM_PROMPT
    /\ \A i \in 1..Len(exchange.turns) : ~Includes(exchange.turns[i].text, exchange.userProfile.tone)

(***************************************************************************)
(* Claims about the message handler, continued                             *)
(***************************************************************************)

\* a list of even length whose turns are user, model, user, model, ...
WellPaired(list) ==
    /\ Len(list) % 2 = 0
    /\ \A i \in 1..Len(list) : list[i].role = IF i % 2 = 1 THEN "user" ELSE "model"

\* C25: whatever the order in which the handlers of the messages run between
\* their awaits, every list of the history map, and every list a handler was
\* given by getHistory, is of even length and alternates user and model from a
\* user turn on; and the list of a channel ends with the query and the reply
\* of the exchange that was appended last.
C25_ReadsSeeWholeExchanges ==
    /\ \A c \in DOMAIN conversationHistories : WellPaired(conversationHistories[c])
    /\ \A p \in pending : WellPaired(p.history)
    /\ (event.kind = "complete" /\ ~event.threw) =>
           LastN(conversationHistories[event.msg.channel], 2) =
               <<Content("user", event.msg.command), Content("model", event.replies[1])>>

\* C25, witness: two handlers read the full list of c1 and were both awaiting
\* generateResponse; one has appended its exchange, which cut the list back,
\* and the other is still waiting
C25_Witness ==
    /\ event.kind = "complete" /\ ~event.threw /\ event.msg.channel = "c1"
    /\ Len(conversationHistories["c1"]) = HistoryLimit
    /\ appendCount["c1"] = HistoryLimit + 2
    /\ \E p \in pending :
           /\ p.msg.channel = "c1"
           /\ p.msg.id # event.msg.id
           /\ Len(p.history) = HistoryLimit

\* C29: in the handler at line 490, botState.isMaintenance changes only in a
\* run for a "maintenance on" or "maintenance off" message of the owner, and
\* then to what the message says; such a message of another user is answered
\* with the owner-only error; a message of another user delivered while the
\* flag is true gets no reply and changes neither the histories nor the
\* profiles nor the flag; and a message of the owner is handled as when the
\* flag is false.
C29_MaintenanceIsOwnerOnly ==
    [][handlerBuild = "L490" =>
          /\ isMaintenance' # isMaintenance =>
                 /\ event'.kind = "deliver"
                 /\ event'.msg.author = BOT_OWNER_ID
                 /\ event'.msg.command = "maintenance"
                 /\ isMaintenance' = (event'.msg.arg = "on")
          /\ (event'.kind = "deliver" /\ event'.msg.command = "maintenance"
                  /\ event'.msg.author # BOT_OWNER_ID /\ event'.reached) =>
                 /\ isMaintenance' = isMaintenance
                 /\ event'.replies \in {<<OwnerOnlyReply>>, <<>>}
                 /\ event'.replies = <<>> => event'.threw
          /\ (event'.kind = "deliver" /\ isMaintenance /\ event'.msg.author # BOT_OWNER_ID) =>
                 /\ ~event'.reached
                 /\ event'.replies = <<>>
                 /\ pending' = pending
                 /\ UNCHANGED <<conversationHistories, userProfiles, storage, isMaintenance>>
          /\ (event'.kind = "deliver" /\ isMaintenance /\ event'.msg.author = BOT_OWNER_ID
                  /\ ~event'.msg.bot /\ event'.msg.addressed) =>
                 /\ event'.reached
                 /\ (event'.msg.command = "maintenance" /\ event'.msg.arg = "off") =>
                        ~isMaintenance'
      ]_vars

\* C29: in the handler at line 490, while botState.isMaintenance is true no
\* step of a handler for a message of another user than the owner sends a reply
\* or changes a history.
C29_NoReplyWhileInMaintenance ==
    [][(handlerBuild = "L490" /\ isMaintenance /\ event'.kind \in {"deliver", "complete"}
           /\ event'.msg.author # BOT_OWNER_ID) =>
          /\ event'.replies = <<>>
          /\ conversationHistories' = conversationHistories
      ]_vars

\* C29, witness: the flag is true, a message of the other user has just been
\* dropped, and the owner's "maintenance on" is what set the flag
C29_Witness ==
    /\ handlerBuild = "L490"
    /\ isMaintenance
    /\ "m2" \in DOMAIN messages
    /\ messages["m1"].command = "maintenance" /\ messages["m1"].author = BOT_OWNER_ID
    /\ event.kind = "deliver" /\ event.msg.id = "m2"
    /\ event.msg.author = "u2" /\ event.msg.addressed /\ ~event.msg.bot
    /\ ~event.reached /\ event.replies = <<>>

\* the handler with the timers of processedMessages guaranteed to fire
SpecHandlerFair == SpecHandler /\ \A key \in MessageKeys : WF_vars(TimerFires(key))

\* C30: in the handler at line 18, a message delivered while its key is in
\* processedMessages gets no reply and changes neither the histories nor the
\* profiles nor the set; every key of the set has a timer waiting, a timer
\* that fires takes its key out of the set, and once the messages have all
\* been delivered the set becomes empty and stays so.
C30_DuplicatesDroppedAndKeysExpire ==
    /\ [][handlerBuild = "L18" =>
              /\ (event'.kind = "deliver" /\ messageKey(event'.msg) \in processedMessages) =>
                     /\ event'.duplicate
                     /\ ~event'.reached
                     /\ event'.replies = <<>>
                     /\ UNCHANGED <<conversationHistories, userProfiles, storage, pending,
                                    processedMessages, timers>>
              /\ processedMessages' = timers'
              /\ event'.kind = "timer" =>
                     \E key \in processedMessages :
                         processedMessages' = processedMessages \ {key}
       ]_vars
    /\ <>[](processedMessages = {})

\* C30, witness: the message m1 was delivered a second time while its key was
\* in the set, and was dropped
C30_Witness ==
    /\ handlerBuild = "L18"
    /\ event.kind = "deliver" /\ event.duplicate
    /\ event.msg.id = "m1" /\ event.msg.addressed /\ event.msg.command = "hello"
    /\ "m1" \in redelivered
    /\ messageKey(event.msg) \in processedMessages
    /\ event.replies = <<>>

(***************************************************************************)
(* Claims about the router, continued                                      *)
(***************************************************************************)

\* C26: in generateResponse of part_011 line 397, the first generateContent
\* call of a turn is on the model getModelForQuery chose for the prompt, and
\* the search tool goes with the pro model and with no other.
C26_FirstAttemptOnRoutedModel ==
    routed.done =>
        /\ routed.l397.first = routed.l397.request.modelChoice
        /\ (routed.l397.request.tools # <<>>) = (routed.l397.first = GEMINI_MODELS.pro)

\* C26: a prompt with a URL was routed to pro, and its request went first to
\* the flash model, with the search tool
ProRoutedSentToFlash ==
    /\ routed.done
    /\ routed.query = "https://example.com"
    /\ routed.l397.request.modelChoice = GEMINI_MODELS.pro
    /\ routed.l397.request.tools = <<"googleSearch">>
    /\ routed.l397.first = GEMINI_MODELS.flash

(***************************************************************************)
(* Claims about the exchange: a turn whose provider call failed            *)
(***************************************************************************)

\* C27: with generateResponse of gemini.service.ts line 153 or line 772, the
\* step in which the last provider call of a turn fails and the turn ends
\* leaves the history map as it was.
C27_FailedTurnAppendsNothing ==
    [][(/\ service \in {"L153", "L772"}
        /\ exchange.pc = "calling"
        /\ exchange'.pc = "replied"
        /\ exchange'.outcomes[Len(exchange'.outcomes)].kind = "error") =>
           conversationHistories' = conversationHistories]_vars

\* C27: the provider call of the declaration at line 772 has failed, the
\* canned message was returned as the reply, and the channel's list ends with
\* the query and the canned message as a model turn
L772CannedErrorStored ==
    /\ service = "L772"
    /\ exchange.pc = "replied"
    /\ LastCallFailed
    /\ exchange.returned = ErrorProcessing
    /\ LastN(conversationHistories[exchange.channelId], 2) =
           <<Content("user", exchange.query), Content("model", ErrorProcessing)>>

(***************************************************************************)
(* Claims about the serverless entry point                                 *)
(***************************************************************************)

\* C28: whatever the order in which the invocations of the exported handler
\* run between their awaits, handleMessageCreate is registered on
\* messageCreate at most once, and a Discord message starts exactly one run
\* of it.
C28_SetupRunsAtMostOnce ==
    /\ listeners <= 1
    /\ handlerRuns <= 1

\* C28: a second request came in while the client.login of the first was
\* awaited; both registered the listeners, and a message started two runs of
\* handleMessageCreate
TwoListenersHandleOneMessage ==
    /\ isBotInitialized
    /\ invocations["i1"] = "responded" /\ invocations["i2"] = "responded"
    /\ listeners = 2
    /\ handlerRuns = 2

====
